---------------------------- MODULE Spec2Model ----------------------------
(***************************************************************************)
(* Verification model of the 5-minute up/down pattern engine:              *)
(*   - src/src/scripts/patterns5mCore.js  (window model, pattern evaluator)*)
(*   - src/src/replayServer.js            (intervals, pattern store/cache) *)
(*                                                                         *)
(* Conventions.                                                            *)
(*   Prices are integers in thousandths (0.98 is 980, 0.005 is 5).         *)
(*   Timestamps are milliseconds relative to the start of the window       *)
(*   btc-updown-5m-1771427100, so 1771427100000 is 0 and 1771427400000 is  *)
(*   300000.                                                               *)
(***************************************************************************)
EXTENDS Integers, Sequences, FiniteSets, TLC

VARIABLES
  sidePts,      \* SpecSide: the points of one side, in arrival order
  sideEval,     \* SpecSide: the last evaluateSidePatterns call and its result
  win,          \* SpecWindow: the window of one window directory
  winPc,        \* SpecWindow: loading, finalized, analyzed, interval, served
  winOut,       \* SpecWindow: what the last analysis returned
  updRows,      \* SpecStore: rows appended to the window's updown_state.jsonl
  cfgFile,      \* SpecStore: the pattern configuration file (raw content)
  cfgCache,     \* SpecStore: PATTERN_CONFIG_CACHE
  patternCache, \* SpecStore: PATTERN_CACHE, entries in insertion order
  stores,       \* SpecStore: the derived pattern store files, by path
  call,         \* SpecStore: the buildIntervalsWithPatterns call in flight
  resp,         \* SpecStore: the last response and what the call did
  nQueries,     \* SpecStore: calls started so far
  cacheLog,     \* SpecCache: the keys set in PATTERN_CACHE so far, in order
  disk,         \* SpecWrite: the files of the derived directory, by path
  writers,      \* SpecWrite: the writePatternStore call of each process
  lastRead,     \* SpecWrite: what the last read of the store path returned
  renamed,      \* SpecWrite: the renames onto the store path, in order
  jsonl,        \* SpecJsonl: the file eachJsonl reads and the line reached
  warnings,     \* SpecJsonl: the counts of the warning tracker, by code
  rowsSeen,     \* SpecJsonl: the rows handed to the callback, in order
  windowsIn,    \* SpecAnalyze: the windows supplied to analyzeWindows
  analysisOut,  \* SpecAnalyze: what analyzeWindows returned
  fnIn,         \* function-level specifications: the arguments, the files read
  fnOut,        \* function-level specifications: what the call returned
  coll,         \* SpecCollector: activeMarket, aggregateBuckets, the clock
  updownFiles   \* SpecCollector: the rows of updown_state.jsonl, by directory

sideVars == <<sidePts, sideEval>>

winVars == <<win, winPc, winOut>>

storeVars == <<updRows, cfgFile, cfgCache, patternCache, stores, call, resp, nQueries>>

writeVars == <<disk, writers, lastRead, renamed>>

jsonlVars == <<jsonl, warnings, rowsSeen>>

analyzeVars == <<windowsIn, analysisOut>>

\* the variables added for the specifications after SpecStore
\* the variables added for the specifications after SpecAnalyze
laterVars == <<fnIn, fnOut, coll, updownFiles>>

moreVars == <<cacheLog, writeVars, jsonlVars, analyzeVars, laterVars>>

vars == <<sidePts, sideEval, win, winPc, winOut,
          updRows, cfgFile, cfgCache, patternCache, stores, call, resp, nQueries,
          cacheLog, disk, writers, lastRead, renamed, jsonl, warnings, rowsSeen,
          windowsIn, analysisOut, fnIn, fnOut, coll, updownFiles>>

\* ------------------------------------------------------------------------
\* Constants of patterns5mCore.js
\* ------------------------------------------------------------------------
FIVE_MIN_MS == 300000
LAST_TWO_MIN_MS == 120000
COMPLETE_MIN_MS == 240000

PATTERN_PRIORITY == <<"extremeReversal", "lateVolatility", "peacefulFinish">>

PatternIds == {PATTERN_PRIORITY[i] : i \in 1..Len(PATTERN_PRIORITY)}

Sides == <<"up", "down">>

\* null of a numeric metric (prices and timestamps are never negative)
NULL == -1

\* null of a metrics object
NoMetrics == [none |-> TRUE]

\* DEFAULT_PATTERN_CONFIG.patterns[id].params, in thousandths
DefaultParams ==
  [extremeReversal |-> [maxPriceThreshold |-> 980, finalPriceThreshold |-> 10],
   lateVolatility  |-> [highThreshold |-> 800, lowThreshold |-> 400],
   peacefulFinish  |-> [finalPriceThreshold |-> 990, maxDrawdownAbsThreshold |-> 100]]

DEFAULT_PATTERN_CONFIG ==
  [patternSetVersion |-> "1",
   patterns |-> [id \in PatternIds |-> [enabled |-> TRUE, params |-> DefaultParams[id]]]]

\* ------------------------------------------------------------------------
\* Helpers
\* ------------------------------------------------------------------------
Max2(a, b) == IF a >= b THEN a ELSE b

Min2(a, b) == IF a <= b THEN a ELSE b

RECURSIVE InsertByTs(_, _)
\* p placed after every element whose ts is <= p.ts (what a stable sort does
\* with an element that arrives after them)
InsertByTs(sorted, p) ==
  IF sorted = <<>> THEN <<p>>
  ELSE IF sorted[Len(sorted)].ts <= p.ts THEN Append(sorted, p)
  ELSE Append(InsertByTs(SubSeq(sorted, 1, Len(sorted) - 1), p), sorted[Len(sorted)])

\* a sort that leaves the points as they came
sortPointsKeepOrder(points) == points

RECURSIVE sortPoints(_)
\* points.sort((a, b) => a.ts - b.ts): stable, ascending by ts
sortPoints(points) ==
  IF points = <<>> THEN <<>>
  ELSE InsertByTs(sortPoints(SubSeq(points, 1, Len(points) - 1)), points[Len(points)])

computeCoverageMs(points) ==
  IF Len(points) <= 1 THEN 0
  ELSE points[Len(points)].ts - points[1].ts

RECURSIVE MaxPrice(_)
MaxPrice(points) ==
  IF Len(points) = 1 THEN points[1].price
  ELSE Max2(MaxPrice(SubSeq(points, 1, Len(points) - 1)), points[Len(points)].price)

RECURSIVE MinPrice(_)
MinPrice(points) ==
  IF Len(points) = 1 THEN points[1].price
  ELSE Min2(MinPrice(SubSeq(points, 1, Len(points) - 1)), points[Len(points)].price)

RECURSIVE DrawdownLoop(_, _, _, _)
\* the loop of computeMaxDrawdownAbs from index i on
DrawdownLoop(points, i, runningHigh, maxDd) ==
  IF i > Len(points) THEN maxDd
  ELSE LET high == Max2(runningHigh, points[i].price)
       IN  DrawdownLoop(points, i + 1, high, Max2(maxDd, high - points[i].price))

\* mutant: the drawdown is taken as highest minus lowest price, whatever
\* their order
computeMaxDrawdownAbsRange(points) ==
  IF points = <<>> THEN 0
  ELSE MaxPrice(points) - MinPrice(points)

\* runningHigh = -Infinity becomes the first price at the first iteration
computeMaxDrawdownAbs(points) ==
  IF points = <<>> THEN 0
  ELSE DrawdownLoop(points, 1, points[1].price, 0)

\* ------------------------------------------------------------------------
\* Pattern configuration
\* ------------------------------------------------------------------------
\* {...defaults, ...src.params}
MergeParams(base, over) ==
  [k \in (DOMAIN base) \cup (DOMAIN over) |->
     IF k \in DOMAIN over THEN over[k] ELSE base[k]]

\* A raw configuration is a record that may hold patternSetVersion and
\* patterns; patterns is a function on a subset of the pattern ids whose
\* values are records that may hold "enabled" (a boolean) and "params" (the
\* numeric overrides present).  A normalized configuration is one of them.
normalizePatternConfig(raw) ==
  [patternSetVersion |->
     IF "patternSetVersion" \in DOMAIN raw /\ raw.patternSetVersion # ""
     THEN raw.patternSetVersion
     ELSE DEFAULT_PATTERN_CONFIG.patternSetVersion,
   patterns |->
     [id \in PatternIds |->
        LET def == DEFAULT_PATTERN_CONFIG.patterns[id]
        IN  IF "patterns" \notin DOMAIN raw \/ id \notin DOMAIN raw.patterns THEN def
            ELSE LET src == raw.patterns[id]
                 IN  [enabled |-> IF "enabled" \in DOMAIN src THEN src.enabled
                                  ELSE def.enabled,
                      params  |-> IF "params" \in DOMAIN src
                                  THEN MergeParams(def.params, src.params)
                                  ELSE def.params]]]

\* Number(toFiniteNumber(params?.name) ?? fallback)
ParamOr(params, name, fallback) ==
  IF name \in DOMAIN params THEN params[name] ELSE fallback

\* mutant: every pattern is evaluated, enabled or not
EnabledPatternIdsAll(patternConfig) == PATTERN_PRIORITY

\* PATTERN_PRIORITY.filter((id) => patternConfig.patterns[id].enabled)
EnabledPatternIds(patternConfig) ==
  LET IsEnabled(id) == patternConfig.patterns[id].enabled
  IN  SelectSeq(PATTERN_PRIORITY, IsEnabled)

\* mutant: the final price must lie strictly below its threshold
ExtremeReversalEvalStrict(ctx, params, state) ==
  LET maxPriceThreshold == ParamOr(params, "maxPriceThreshold", 980)
      finalPriceThreshold == ParamOr(params, "finalPriceThreshold", 10)
  IN  [hit |-> ctx.fullMax >= maxPriceThreshold /\ ctx.finalPrice < finalPriceThreshold,
       metrics |-> [max_price |-> ctx.fullMax, final_price |-> ctx.finalPrice]]

\* ------------------------------------------------------------------------
\* PATTERN_EVALUATORS
\* ------------------------------------------------------------------------
ExtremeReversalEval(ctx, params, state) ==
  LET maxPriceThreshold == ParamOr(params, "maxPriceThreshold", 980)
      finalPriceThreshold == ParamOr(params, "finalPriceThreshold", 10)
  IN  [hit |-> ctx.fullMax >= maxPriceThreshold /\ ctx.finalPrice <= finalPriceThreshold,
       metrics |-> [max_price |-> ctx.fullMax, final_price |-> ctx.finalPrice]]

RECURSIVE LateVolatilityLoopLowInclusive(_, _, _, _, _)
\* mutant: the drop is tested with <= lowThreshold
LateVolatilityLoopLowInclusive(points, i, highSeen, highThreshold, lowThreshold) ==
  IF i > Len(points) THEN FALSE
  ELSE LET seen == highSeen \/ points[i].price >= highThreshold
       IN  IF seen /\ points[i].price <= lowThreshold THEN TRUE
           ELSE LateVolatilityLoopLowInclusive(points, i + 1, seen,
                                               highThreshold, lowThreshold)

RECURSIVE LateVolatilityLoop(_, _, _, _, _)
\* the loop of lateVolatility from index i on: TRUE when it reaches "hit = true"
LateVolatilityLoop(points, i, highSeen, highThreshold, lowThreshold) ==
  IF i > Len(points) THEN FALSE
  ELSE LET seen == highSeen \/ points[i].price >= highThreshold
       IN  IF seen /\ points[i].price < lowThreshold THEN TRUE
           ELSE LateVolatilityLoop(points, i + 1, seen, highThreshold, lowThreshold)

LateVolatilityEval(ctx, params, state) ==
  LET highThreshold == ParamOr(params, "highThreshold", 800)
      lowThreshold == ParamOr(params, "lowThreshold", 400)
  IN  [hit |-> LateVolatilityLoop(ctx.last2m, 1, FALSE, highThreshold, lowThreshold),
       metrics |-> [last2m_high |-> ctx.last2mHigh,
                    last2m_low |-> ctx.last2mLow,
                    final_price |-> ctx.finalPrice]]

\* mutant: peacefulFinish ignores the hits decided before it
PeacefulFinishEvalNoSuppress(ctx, params, state) ==
  LET finalPriceThreshold == ParamOr(params, "finalPriceThreshold", 990)
      maxDrawdownAbsThreshold == ParamOr(params, "maxDrawdownAbsThreshold", 100)
  IN  [hit |-> /\ Len(ctx.last2m) > 0
               /\ ctx.finalPrice >= finalPriceThreshold
               /\ ctx.maxDrawdownAbs # NULL
               /\ ctx.maxDrawdownAbs <= maxDrawdownAbsThreshold,
       metrics |-> [final_price |-> ctx.finalPrice,
                    last2m_high |-> ctx.last2mHigh,
                    last2m_low |-> ctx.last2mLow,
                    max_drawdown_abs |-> ctx.maxDrawdownAbs]]

PeacefulFinishEval(ctx, params, state) ==
  LET finalPriceThreshold == ParamOr(params, "finalPriceThreshold", 990)
      maxDrawdownAbsThreshold == ParamOr(params, "maxDrawdownAbsThreshold", 100)
      lateVolatilityHit == state.hits["lateVolatility"]
  IN  [hit |-> /\ Len(ctx.last2m) > 0
               /\ ctx.finalPrice >= finalPriceThreshold
               /\ ctx.maxDrawdownAbs # NULL
               /\ ctx.maxDrawdownAbs <= maxDrawdownAbsThreshold
               /\ ~lateVolatilityHit,
       metrics |-> [final_price |-> ctx.finalPrice,
                    last2m_high |-> ctx.last2mHigh,
                    last2m_low |-> ctx.last2mLow,
                    max_drawdown_abs |-> ctx.maxDrawdownAbs]]

\* PATTERN_EVALUATORS[id](ctx, params, state)
RunEvaluator(id, ctx, params, state) ==
  CASE id = "extremeReversal" -> ExtremeReversalEval(ctx, params, state)
    [] id = "lateVolatility"  -> LateVolatilityEval(ctx, params, state)
    [] id = "peacefulFinish"  -> PeacefulFinishEval(ctx, params, state)

AllFalseHits == [id \in PatternIds |-> FALSE]

EmptySideResult ==
  [hasData |-> FALSE,
   hits |-> AllFalseHits,
   metricsByPattern |-> [id \in PatternIds |-> NoMetrics],
   sharedMetrics |-> NoMetrics]

\* the shared per-side context of evaluateSidePatterns (lines 211-229)
SideContext(inWindowUnsorted, windowEndMs) ==
  LET inWindow == sortPoints(inWindowUnsorted)
      last2mStart == windowEndMs - LAST_TWO_MIN_MS
      InLast2m(p) == p.ts >= last2mStart
      last2m == SelectSeq(inWindow, InLast2m)
  IN  [inWindow |-> inWindow,
       last2m |-> last2m,
       finalPrice |-> inWindow[Len(inWindow)].price,
       fullMax |-> MaxPrice(inWindow),
       last2mHigh |-> IF Len(last2m) > 0 THEN MaxPrice(last2m) ELSE NULL,
       last2mLow |-> IF Len(last2m) > 0 THEN MinPrice(last2m) ELSE NULL,
       maxDrawdownAbs |-> IF Len(last2m) > 0 THEN computeMaxDrawdownAbs(last2m) ELSE NULL]

RECURSIVE EvaluatorLoop(_, _, _, _, _)
\* for (const id of enabledPatternIds) { ... } from index i on; acc holds
\* hits (which is also state.hits) and metricsByPattern
EvaluatorLoop(ids, i, ctx, patternConfig, acc) ==
  IF i > Len(ids) THEN acc
  ELSE LET id == ids[i]
           result == RunEvaluator(id, ctx, patternConfig.patterns[id].params,
                                  [hits |-> acc.hits])
       IN  EvaluatorLoop(ids, i + 1, ctx, patternConfig,
             [hits |-> [acc.hits EXCEPT ![id] = result.hit],
              metricsByPattern |-> [acc.metricsByPattern EXCEPT ![id] = result.metrics]])

\* an evaluation that keeps the points outside the window
evaluateSidePatternsUnfiltered(points, windowStartMs, windowEndMs, patternConfigInput) ==
  LET patternConfig == normalizePatternConfig(patternConfigInput)
      enabledPatternIds == EnabledPatternIds(patternConfig)
  IN  IF Len(points) = 0 THEN EmptySideResult
      ELSE LET ctx == SideContext(points, windowEndMs)
               acc == EvaluatorLoop(enabledPatternIds, 1, ctx, patternConfig,
                        [hits |-> AllFalseHits,
                         metricsByPattern |-> [id \in PatternIds |-> NoMetrics]])
           IN  [hasData |-> TRUE,
                hits |-> acc.hits,
                metricsByPattern |-> acc.metricsByPattern,
                sharedMetrics |-> [max_price |-> ctx.fullMax,
                                   final_price |-> ctx.finalPrice,
                                   last2m_high |-> ctx.last2mHigh,
                                   last2m_low |-> ctx.last2mLow,
                                   max_drawdown_abs |-> ctx.maxDrawdownAbs]]

evaluateSidePatterns(points, windowStartMs, windowEndMs, patternConfigInput) ==
  LET patternConfig == normalizePatternConfig(patternConfigInput)
      enabledPatternIds == EnabledPatternIds(patternConfig)
      InWindow(p) == p.ts >= windowStartMs /\ p.ts <= windowEndMs
      inWindow == SelectSeq(points, InWindow)
  IN  IF Len(inWindow) = 0 THEN EmptySideResult
      ELSE LET ctx == SideContext(inWindow, windowEndMs)
               acc == EvaluatorLoop(enabledPatternIds, 1, ctx, patternConfig,
                        [hits |-> AllFalseHits,
                         metricsByPattern |-> [id \in PatternIds |-> NoMetrics]])
           IN  [hasData |-> TRUE,
                hits |-> acc.hits,
                metricsByPattern |-> acc.metricsByPattern,
                sharedMetrics |-> [max_price |-> ctx.fullMax,
                                   final_price |-> ctx.finalPrice,
                                   last2m_high |-> ctx.last2mHigh,
                                   last2m_low |-> ctx.last2mLow,
                                   max_drawdown_abs |-> ctx.maxDrawdownAbs]]



\* ------------------------------------------------------------------------
\* Window model (patterns5mCore.js)
\* ------------------------------------------------------------------------
\* parseMarketMeta of a 5-minute slug whose start is startMs
MarketMeta(startMs) ==
  [minutes |-> 5, windowMs |-> FIVE_MIN_MS, startMs |-> startMs,
   endMs |-> startMs + 5 * 60 * 1000]

newWindow(date, windowId, marketSlug, meta) ==
  [date |-> date,
   windowId |-> windowId,
   marketSlug |-> marketSlug,
   startMs |-> meta.startMs,
   endMs |-> meta.endMs,
   sidePoints |-> [up |-> <<>>, down |-> <<>>],
   btcPoints |-> <<>>,
   coverage |-> [upCoverageMs |-> 0, downCoverageMs |-> 0,
                 oddsCoverageMs |-> 0, btcCoverageMs |-> 0],
   isComplete |-> FALSE]

\* mutant: a window needs more than COMPLETE_MIN_MS of coverage
finalizeWindowStrict(window) ==
  LET up == sortPoints(window.sidePoints.up)
      down == sortPoints(window.sidePoints.down)
      btc == sortPoints(window.btcPoints)
      upCoverageMs == computeCoverageMs(up)
      downCoverageMs == computeCoverageMs(down)
      oddsCoverageMs == Max2(upCoverageMs, downCoverageMs)
      btcCoverageMs == computeCoverageMs(btc)
  IN  [window EXCEPT
         !.sidePoints = [up |-> up, down |-> down],
         !.btcPoints = btc,
         !.coverage = [upCoverageMs |-> upCoverageMs,
                       downCoverageMs |-> downCoverageMs,
                       oddsCoverageMs |-> oddsCoverageMs,
                       btcCoverageMs |-> btcCoverageMs],
         !.isComplete = btcCoverageMs > COMPLETE_MIN_MS
                          /\ oddsCoverageMs > COMPLETE_MIN_MS]

\* a finalization that adds the coverages to those the window already has
finalizeWindowAdding(window) ==
  LET up == sortPoints(window.sidePoints.up)
      down == sortPoints(window.sidePoints.down)
      btc == sortPoints(window.btcPoints)
      upCoverageMs == window.coverage.upCoverageMs + computeCoverageMs(up)
      downCoverageMs == window.coverage.downCoverageMs + computeCoverageMs(down)
      oddsCoverageMs == Max2(upCoverageMs, downCoverageMs)
      btcCoverageMs == window.coverage.btcCoverageMs + computeCoverageMs(btc)
  IN  [window EXCEPT
         !.sidePoints = [up |-> up, down |-> down],
         !.btcPoints = btc,
         !.coverage = [upCoverageMs |-> upCoverageMs,
                       downCoverageMs |-> downCoverageMs,
                       oddsCoverageMs |-> oddsCoverageMs,
                       btcCoverageMs |-> btcCoverageMs],
         !.isComplete = btcCoverageMs >= COMPLETE_MIN_MS
                          /\ oddsCoverageMs >= COMPLETE_MIN_MS]

finalizeWindow(window) ==
  LET up == sortPoints(window.sidePoints.up)
      down == sortPoints(window.sidePoints.down)
      btc == sortPoints(window.btcPoints)
      upCoverageMs == computeCoverageMs(up)
      downCoverageMs == computeCoverageMs(down)
      oddsCoverageMs == Max2(upCoverageMs, downCoverageMs)
      btcCoverageMs == computeCoverageMs(btc)
  IN  [window EXCEPT
         !.sidePoints = [up |-> up, down |-> down],
         !.btcPoints = btc,
         !.coverage = [upCoverageMs |-> upCoverageMs,
                       downCoverageMs |-> downCoverageMs,
                       oddsCoverageMs |-> oddsCoverageMs,
                       btcCoverageMs |-> btcCoverageMs],
         !.isComplete = btcCoverageMs >= COMPLETE_MIN_MS
                          /\ oddsCoverageMs >= COMPLETE_MIN_MS]

\* the object pushPatternHit pushes
PatternHit(window, side, metrics) ==
  [date |-> window.date,
   market_slug |-> IF window.marketSlug # "" THEN window.marketSlug ELSE window.windowId,
   window_id |-> window.windowId,
   window_start_ms |-> window.startMs,
   window_end_ms |-> window.endMs,
   side |-> side,
   metrics |-> metrics]

\* The market slugs of the model in localeCompare order
SlugOrder == <<"btc-updown-5m-1771427100", "btc-updown-5m-1771427400">>

SlugRank(slug) ==
  IF \E k \in 1..Len(SlugOrder) : SlugOrder[k] = slug
  THEN CHOOSE k \in 1..Len(SlugOrder) : SlugOrder[k] = slug
  ELSE 0

\* "down".localeCompare("up") < 0
SideRank(side) == IF side = "down" THEN 0 ELSE 1

\* a comparator that stops at the market slug
HitNotAfterNoSide(a, b) ==
  IF a.window_start_ms # b.window_start_ms THEN a.window_start_ms < b.window_start_ms
  ELSE SlugRank(a.market_slug) <= SlugRank(b.market_slug)

\* the comparator of sortHits is negative or zero: a does not come after b
HitNotAfter(a, b) ==
  IF a.window_start_ms # b.window_start_ms THEN a.window_start_ms < b.window_start_ms
  ELSE IF a.market_slug # b.market_slug
       THEN SlugRank(a.market_slug) <= SlugRank(b.market_slug)
       ELSE SideRank(a.side) <= SideRank(b.side)

RECURSIVE InsertHit(_, _)
InsertHit(sorted, h) ==
  IF sorted = <<>> THEN <<h>>
  ELSE IF HitNotAfter(sorted[Len(sorted)], h) THEN Append(sorted, h)
  ELSE Append(InsertHit(SubSeq(sorted, 1, Len(sorted) - 1), h), sorted[Len(sorted)])

RECURSIVE sortHits(_)
\* hits.sort(comparator): stable
sortHits(hits) ==
  IF hits = <<>> THEN <<>>
  ELSE InsertHit(sortHits(SubSeq(hits, 1, Len(hits) - 1)), hits[Len(hits)])

\* sideResults of one window (analyzeWindows, lines 331-334)
SideResults(window, patternConfig) ==
  [side \in {"up", "down"} |->
     evaluateSidePatterns(window.sidePoints[side], window.startMs, window.endMs,
                          patternConfig)]

\* a loop that looks at the up side only
WindowPatternHitsUpOnly(window, sideResults, patternConfig, patternId) ==
  IF /\ sideResults.up.hasData
     /\ patternConfig.patterns[patternId].enabled
     /\ sideResults.up.hits[patternId]
  THEN <<PatternHit(window, "up", sideResults.up.metricsByPattern[patternId])>>
  ELSE <<>>

\* what the loop over ["up", "down"] pushes to hits[patternId] for one window
WindowPatternHits(window, sideResults, patternConfig, patternId) ==
  LET Hits(side) ==
        /\ sideResults[side].hasData
        /\ patternConfig.patterns[patternId].enabled
        /\ sideResults[side].hits[patternId]
      hitSides == SelectSeq(Sides, Hits)
  IN  [k \in 1..Len(hitSides) |->
         PatternHit(window, hitSides[k],
                    sideResults[hitSides[k]].metricsByPattern[patternId])]

RECURSIVE AnalyzeLoopNoGate(_, _, _, _, _)
\* mutant: the loop evaluates every window, complete or not
AnalyzeLoopNoGate(windows, i, includeIncomplete, patternConfig, acc) ==
  IF i > Len(windows) THEN acc
  ELSE LET window == windows[i]
           sideResults == SideResults(window, patternConfig)
           new == [id \in PatternIds |->
                     WindowPatternHits(window, sideResults, patternConfig, id)]
       IN  AnalyzeLoopNoGate(windows, i + 1, includeIncomplete, patternConfig,
             [hits |-> [id \in PatternIds |-> acc.hits[id] \o new[id]],
              counts |-> [id \in PatternIds |->
                            acc.counts[id] + (IF Len(new[id]) > 0 THEN 1 ELSE 0)],
              countedWindows |-> acc.countedWindows + 1])

RECURSIVE AnalyzeLoop(_, _, _, _, _)
\* for (const window of windows) { ... } of analyzeWindows from index i on
AnalyzeLoop(windows, i, includeIncomplete, patternConfig, acc) ==
  IF i > Len(windows) THEN acc
  ELSE LET window == windows[i]
       IN  IF ~includeIncomplete /\ ~window.isComplete
           THEN AnalyzeLoop(windows, i + 1, includeIncomplete, patternConfig, acc)
           ELSE LET sideResults == SideResults(window, patternConfig)
                    new == [id \in PatternIds |->
                              WindowPatternHits(window, sideResults, patternConfig, id)]
                IN  AnalyzeLoop(windows, i + 1, includeIncomplete, patternConfig,
                      [hits |-> [id \in PatternIds |-> acc.hits[id] \o new[id]],
                       counts |-> [id \in PatternIds |->
                                     acc.counts[id] + (IF Len(new[id]) > 0 THEN 1 ELSE 0)],
                       countedWindows |-> acc.countedWindows + 1])

\* analyzeWindows(windows, includeIncomplete, counters, patternConfigInput);
\* countedWindows is what the call adds to counters.countedWindows
analyzeWindows(windows, includeIncomplete, patternConfigInput) ==
  LET patternConfig == normalizePatternConfig(patternConfigInput)
      acc == AnalyzeLoop(windows, 1, includeIncomplete, patternConfig,
               [hits |-> [id \in PatternIds |-> <<>>],
                counts |-> [id \in PatternIds |-> 0],
                countedWindows |-> 0])
  IN  [hits |-> [id \in PatternIds |-> sortHits(acc.hits[id])],
       counts |-> acc.counts,
       countedWindows |-> acc.countedWindows,
       patternConfig |-> patternConfig]

\* null patternPrimary
NoPattern == "null"

\* mutant: patternPrimary is the last pattern of the list
deriveWindowPatternInfoLastPrimary(window, analyzedHits) ==
  LET windowId == IF window.windowId # "" THEN window.windowId ELSE window.marketSlug
      OfWindow(h) == (IF h.window_id # "" THEN h.window_id ELSE h.market_slug) = windowId
      sideHits == [k \in PatternIds |->
                     LET mine == SelectSeq(analyzedHits[k], OfWindow)
                     IN  [n \in 1..Len(mine) |->
                            [side |-> mine[n].side, metrics |-> mine[n].metrics]]]
      HasHit(k) == Len(sideHits[k]) > 0
      patterns == SelectSeq(PATTERN_PRIORITY, HasHit)
  IN  [patterns |-> patterns,
       patternPrimary |-> IF Len(patterns) > 0 THEN patterns[Len(patterns)] ELSE NoPattern,
       patternSideHits |-> sideHits]

\* deriveWindowPatternInfo(window, analyzedHits)
deriveWindowPatternInfo(window, analyzedHits) ==
  LET windowId == IF window.windowId # "" THEN window.windowId ELSE window.marketSlug
      OfWindow(h) == (IF h.window_id # "" THEN h.window_id ELSE h.market_slug) = windowId
      sideHits == [k \in PatternIds |->
                     LET mine == SelectSeq(analyzedHits[k], OfWindow)
                     IN  [n \in 1..Len(mine) |->
                            [side |-> mine[n].side, metrics |-> mine[n].metrics]]]
      HasHit(k) == Len(sideHits[k]) > 0
      patterns == SelectSeq(PATTERN_PRIORITY, HasHit)
  IN  [patterns |-> patterns,
       patternPrimary |-> IF Len(patterns) > 0 THEN patterns[1] ELSE NoPattern,
       patternSideHits |-> sideHits]

\* ------------------------------------------------------------------------
\* Replay server: intervals and pattern info (replayServer.js)
\* ------------------------------------------------------------------------
RECURSIVE MinTsLoop(_, _, _)
\* xMinMs = xMinMs === null ? ts : Math.min(xMinMs, ts), over the rows
MinTsLoop(rows, i, acc) ==
  IF i > Len(rows) THEN acc
  ELSE MinTsLoop(rows, i + 1, IF acc = NULL THEN rows[i].ts ELSE Min2(acc, rows[i].ts))

RECURSIVE MaxTsLoop(_, _, _)
\* xMaxMs = xMaxMs === null ? ts : Math.max(xMaxMs, ts), over the rows
MaxTsLoop(rows, i, acc) ==
  IF i > Len(rows) THEN acc
  ELSE MaxTsLoop(rows, i + 1, IF acc = NULL THEN rows[i].ts ELSE Max2(acc, rows[i].ts))

\* xMinMs !== null && xMaxMs !== null ? (xMaxMs - xMinMs) : 0
SpanMs(minMs, maxMs) == IF minMs # NULL /\ maxMs # NULL THEN maxMs - minMs ELSE 0

NoInterval == [exists |-> FALSE]

\* One iteration of buildIntervalsFromWindowDirs: the interval of a window
\* directory whose name parses to startMs, from the rows of its two files
\* that carry a timestamp and a price (upRows and downRows are the rows of
\* updown_state.jsonl by side, btcRows those of btc_reference.jsonl).
BuildInterval(windowId, startMs, upRows, downRows, btcRows) ==
  LET btcCoverageMs == SpanMs(MinTsLoop(btcRows, 1, NULL), MaxTsLoop(btcRows, 1, NULL))
      upCoverageMs == SpanMs(MinTsLoop(upRows, 1, NULL), MaxTsLoop(upRows, 1, NULL))
      downCoverageMs == SpanMs(MinTsLoop(downRows, 1, NULL), MaxTsLoop(downRows, 1, NULL))
      oddsCoverageMs == Max2(upCoverageMs, downCoverageMs)
      hasOdds == Len(upRows) > 0 \/ Len(downRows) > 0
  IN  IF ~(Len(btcRows) > 0 /\ hasOdds) THEN NoInterval
      ELSE [exists |-> TRUE,
            windowId |-> windowId,
            marketSlug |-> windowId,
            startMs |-> startMs,
            endMs |-> startMs + FIVE_MIN_MS,
            btcPoints |-> Len(btcRows),
            upPoints |-> Len(upRows),
            downPoints |-> Len(downRows),
            btcCoverageMs |-> btcCoverageMs,
            upCoverageMs |-> upCoverageMs,
            downCoverageMs |-> downCoverageMs,
            oddsCoverageMs |-> oddsCoverageMs,
            isComplete |-> btcCoverageMs >= COMPLETE_MIN_MS
                             /\ oddsCoverageMs >= COMPLETE_MIN_MS]

\* getIntervalPatternKey: windowId, else marketSlug (both are set in the model)
getIntervalPatternKey(interval) ==
  IF interval.windowId # "" THEN interval.windowId ELSE interval.marketSlug

emptyPatternSideHits == [k \in PatternIds |-> <<>>]

emptyPatternInfo ==
  [patterns |-> <<>>, patternPrimary |-> NoPattern, patternSideHits |-> emptyPatternSideHits]

RECURSIVE PatternIdListLoop(_, _, _)
\* the loop of normalizePatternIdList from index i on
PatternIdListLoop(list, i, out) ==
  IF i > Len(list) THEN out
  ELSE LET key == list[i]
       IN  IF key \notin PatternIds \/ (\E n \in 1..Len(out) : out[n] = key)
           THEN PatternIdListLoop(list, i + 1, out)
           ELSE PatternIdListLoop(list, i + 1, Append(out, key))

normalizePatternIdList(list) == PatternIdListLoop(list, 1, <<>>)

\* mutant: the side of every stored hit is exchanged
normalizePatternInfoSwapSides(raw) ==
  LET patternSideHits ==
        [k \in PatternIds |->
           LET arr == raw.patternSideHits[k]
           IN  [n \in 1..Len(arr) |->
                  [side |-> IF arr[n].side = "down" THEN "up" ELSE "down",
                   metrics |-> arr[n].metrics]]]
      patterns == normalizePatternIdList(raw.patterns)
      primary == IF \E n \in 1..Len(patterns) : patterns[n] = raw.patternPrimary
                 THEN raw.patternPrimary
                 ELSE IF Len(patterns) > 0 THEN patterns[1] ELSE NoPattern
  IN  [patterns |-> patterns, patternPrimary |-> primary, patternSideHits |-> patternSideHits]

\* normalizePatternInfo(raw), raw an object with the three fields
normalizePatternInfo(raw) ==
  LET patternSideHits ==
        [k \in PatternIds |->
           LET arr == raw.patternSideHits[k]
           IN  [n \in 1..Len(arr) |->
                  [side |-> IF arr[n].side = "down" THEN "down" ELSE "up",
                   metrics |-> arr[n].metrics]]]
      patterns == normalizePatternIdList(raw.patterns)
      primary == IF \E n \in 1..Len(patterns) : patterns[n] = raw.patternPrimary
                 THEN raw.patternPrimary
                 ELSE IF Len(patterns) > 0 THEN patterns[1] ELSE NoPattern
  IN  [patterns |-> patterns, patternPrimary |-> primary, patternSideHits |-> patternSideHits]

\* the window object computePatternInfoForInterval builds (lines 637-652)
IntervalWindow(date, interval, sidePoints) ==
  [date |-> date,
   windowId |-> getIntervalPatternKey(interval),
   marketSlug |-> IF interval.marketSlug # "" THEN interval.marketSlug
                  ELSE getIntervalPatternKey(interval),
   startMs |-> interval.startMs,
   endMs |-> interval.endMs,
   sidePoints |-> sidePoints,
   btcPoints |-> <<>>,
   coverage |-> [upCoverageMs |-> interval.upCoverageMs,
                 downCoverageMs |-> interval.downCoverageMs,
                 oddsCoverageMs |-> interval.oddsCoverageMs,
                 btcCoverageMs |-> interval.btcCoverageMs],
   isComplete |-> interval.isComplete]

\* computePatternInfoForInterval; sidePoints is what loadSidePointsForInterval
\* reads from the window's updown_state.jsonl
computePatternInfoForInterval(date, interval, includeIncomplete, patternConfig, sidePoints) ==
  IF ~includeIncomplete /\ ~interval.isComplete THEN emptyPatternInfo
  ELSE LET window == IntervalWindow(date, interval, sidePoints)
           analyzed == analyzeWindows(<<window>>, TRUE, patternConfig)
       IN  normalizePatternInfo(deriveWindowPatternInfo(window, analyzed.hits))

RECURSIVE SummaryLoop(_, _, _, _, _)
\* the loop of buildPatternSummary from index i on
SummaryLoop(intervals, i, byWindowId, includeIncomplete, acc) ==
  IF i > Len(intervals) THEN acc
  ELSE LET interval == intervals[i]
           key == getIntervalPatternKey(interval)
           info == IF key \in DOMAIN byWindowId THEN byWindowId[key] ELSE emptyPatternInfo
           Times(id) == Cardinality({n \in 1..Len(info.patterns) : info.patterns[n] = id})
       IN  IF ~includeIncomplete /\ ~interval.isComplete
           THEN SummaryLoop(intervals, i + 1, byWindowId, includeIncomplete, acc)
           ELSE SummaryLoop(intervals, i + 1, byWindowId, includeIncomplete,
                  [windowCount |-> [id \in PatternIds |-> acc.windowCount[id] + Times(id)],
                   countedWindows |-> acc.countedWindows + 1])

buildPatternSummary(intervals, byWindowId, includeIncomplete) ==
  LET acc == SummaryLoop(intervals, 1, byWindowId, includeIncomplete,
               [windowCount |-> [id \in PatternIds |-> 0], countedWindows |-> 0])
  IN  [windowCount |-> acc.windowCount,
       countedWindows |-> acc.countedWindows,
       includeIncomplete |-> includeIncomplete]

\* ------------------------------------------------------------------------
\* Inputs of the evaluator
\* ------------------------------------------------------------------------
\* parseMarketMeta("btc-updown-5m-1771427100"): startMs, relative
WindowStartMs == 0

WindowEndMs == WindowStartMs + 5 * 60 * 1000

Pt(ts, price) == [ts |-> ts, price |-> price]

\* Points a side series is drawn from.  They sit on both sides of every
\* comparison of the evaluator: the window bounds (0, 300000 in, 300001
\* out), the last-2-minute bound (179999 out, 180000 in), the thresholds
\* (800 and 400 are exactly highThreshold and lowThreshold, 890 is a
\* drawdown of exactly 100 below 990), equal timestamps with different
\* prices (295000), and the two scenario series of the specification.
SidePointValues ==
  { Pt(0, 500), Pt(100000, 990), Pt(295000, 5),
    Pt(160000, 850), Pt(250000, 300),
    Pt(179999, 850), Pt(180000, 800), Pt(200000, 400),
    Pt(270000, 890), Pt(295000, 990), Pt(300000, 990), Pt(300001, 5) }

\* the "enabled" settings of the raw configurations
EnabledChoices ==
  { <<TRUE, TRUE, TRUE>>, <<TRUE, FALSE, TRUE>>,
    <<TRUE, TRUE, FALSE>>, <<FALSE, FALSE, TRUE>> }

\* the "params" overrides of the raw configurations: none; a peacefulFinish
\* loose enough to be met by a series that also meets lateVolatility; a
\* lateVolatility whose lowThreshold lies above its highThreshold, with a
\* stricter extremeReversal
ParamChoices ==
  { [extremeReversal |-> <<>>, lateVolatility |-> <<>>, peacefulFinish |-> <<>>],
    [extremeReversal |-> <<>>, lateVolatility |-> <<>>,
     peacefulFinish |-> [finalPriceThreshold |-> 300, maxDrawdownAbsThreshold |-> 1000]],
    [extremeReversal |-> [maxPriceThreshold |-> 990, finalPriceThreshold |-> 5],
     lateVolatility |-> [highThreshold |-> 400, lowThreshold |-> 850],
     peacefulFinish |-> <<>>] }

\* The raw configuration object of an "enabled" setting and an override.
\* An enabled pattern of the first setting carries no "enabled" key at all.
RawConfig(en, par) ==
  [patterns |->
     [id \in PatternIds |->
        LET i == CHOOSE k \in 1..Len(PATTERN_PRIORITY) : PATTERN_PRIORITY[k] = id
        IN  IF en = <<TRUE, TRUE, TRUE>> THEN [params |-> par[id]]
            ELSE [enabled |-> en[i], params |-> par[id]]]]

RawConfigs == {RawConfig(en, par) : en \in EnabledChoices, par \in ParamChoices}

\* ------------------------------------------------------------------------
\* SpecSide: evaluateSidePatterns applied to every bounded side series
\* ------------------------------------------------------------------------
MaxSidePoints == 3

NotEvaluated == [done |-> FALSE]

\* the window variables of a specification that does not use them
WindowIdle ==
  /\ win = <<>>
  /\ winPc = "idle"
  /\ winOut = <<>>

\* the server variables of a specification that does not use them
StoreIdle ==
  /\ updRows = 0
  /\ cfgFile = <<>>
  /\ cfgCache = <<>>
  /\ patternCache = <<>>
  /\ stores = <<>>
  /\ call = <<>>
  /\ resp = <<>>
  /\ nQueries = 0

\* the variables of the later specifications, in one that does not use them
WriteIdle ==
  /\ disk = <<>>
  /\ writers = <<>>
  /\ lastRead = <<>>
  /\ renamed = <<>>

JsonlIdle ==
  /\ jsonl = <<>>
  /\ warnings = <<>>
  /\ rowsSeen = <<>>

AnalyzeIdle ==
  /\ windowsIn = <<>>
  /\ analysisOut = <<>>

LaterIdle ==
  /\ fnIn = <<>>
  /\ fnOut = <<>>
  /\ coll = <<>>
  /\ updownFiles = <<>>

MoreIdle ==
  /\ LaterIdle
  /\ cacheLog = <<>>
  /\ WriteIdle
  /\ JsonlIdle
  /\ AnalyzeIdle

\* the side variables of a specification that does not use them
SideIdle ==
  /\ sidePts = <<>>
  /\ sideEval = <<>>

InitSide ==
  /\ sidePts = <<>>
  /\ sideEval = NotEvaluated
  /\ WindowIdle
  /\ StoreIdle
  /\ MoreIdle

\* a loader pushes one more point onto the side (sidePoints[side].push)
SidePush ==
  /\ Len(sidePts) < MaxSidePoints
  /\ \E p \in SidePointValues : sidePts' = Append(sidePts, p)
  /\ sideEval' = NotEvaluated
  /\ UNCHANGED <<winVars, storeVars, moreVars>>

\* evaluateSidePatterns(points, startMs, endMs, patternConfig)
SideEvaluate ==
  /\ sideEval = NotEvaluated
  /\ \E raw \in RawConfigs :
       sideEval' = [done |-> TRUE,
                    raw |-> raw,
                    config |-> normalizePatternConfig(raw),
                    result |-> evaluateSidePatterns(sidePts, WindowStartMs,
                                                    WindowEndMs, raw)]
  /\ UNCHANGED <<sidePts, winVars, storeVars, moreVars>>

NextSide == SidePush \/ SideEvaluate

SpecSide == InitSide /\ [][NextSide]_vars

\* ------------------------------------------------------------------------
\* What the claims say about a side series, stated on the points in arrival
\* order and independently of the evaluator's sort and loops
\* ------------------------------------------------------------------------
\* the indices of the points of the side with windowStart <= ts <= windowEnd
InWindowIdx ==
  {i \in 1..Len(sidePts) :
     sidePts[i].ts >= WindowStartMs /\ sidePts[i].ts <= WindowEndMs}

\* the indices of the last-2-minute sub-series
Last2mIdx == {i \in InWindowIdx : sidePts[i].ts >= WindowEndMs - 120000}

\* point i comes before point j in time order (arrival order among equal ts)
Precedes(i, j) ==
  \/ sidePts[i].ts < sidePts[j].ts
  \/ sidePts[i].ts = sidePts[j].ts /\ i < j

\* the latest in-window point
LatestIdx == CHOOSE i \in InWindowIdx : \A j \in InWindowIdx : j = i \/ Precedes(j, i)

SpecFinalPrice == sidePts[LatestIdx].price

SpecFullMax ==
  CHOOSE m \in {sidePts[i].price : i \in InWindowIdx} :
    \A i \in InWindowIdx : sidePts[i].price <= m

\* the largest (running high so far minus current price) over the
\* last-2-minute sub-series
SpecMaxDrawdown ==
  LET drops == {sidePts[j].price - sidePts[i].price :
                  <<j, i>> \in {q \in Last2mIdx \X Last2mIdx :
                                  q[1] = q[2] \/ Precedes(q[1], q[2])}}
  IN  CHOOSE m \in drops : \A d \in drops : d <= m

\* peacefulFinish's own three numeric conditions
PeacefulFinishRaw(config) ==
  /\ Last2mIdx # {}
  /\ SpecFinalPrice >= config.patterns["peacefulFinish"].params.finalPriceThreshold
  /\ SpecMaxDrawdown <= config.patterns["peacefulFinish"].params.maxDrawdownAbsThreshold

\* some point of the last 2 minutes is >= highThreshold and a LATER one is
\* < lowThreshold
LateVolatilityLater(config) ==
  \E i \in Last2mIdx, j \in Last2mIdx :
    /\ Precedes(i, j)
    /\ sidePts[i].price >= config.patterns["lateVolatility"].params.highThreshold
    /\ sidePts[j].price < config.patterns["lateVolatility"].params.lowThreshold

\* ... and that point or a later one is < lowThreshold
LateVolatilitySameOrLater(config) ==
  \E i \in Last2mIdx, j \in Last2mIdx :
    /\ (i = j \/ Precedes(i, j))
    /\ sidePts[i].price >= config.patterns["lateVolatility"].params.highThreshold
    /\ sidePts[j].price < config.patterns["lateVolatility"].params.lowThreshold

SideEnabled(id) == sideEval.config.patterns[id].enabled

SideHit(id) == sideEval.result.hits[id]

\* C1: with lateVolatility and peacefulFinish both enabled, no evaluation
\* reports peacefulFinish on a side on which it reports lateVolatility.
C1_PeacefulFinishSuppressed ==
  (sideEval.done /\ SideEnabled("lateVolatility") /\ SideEnabled("peacefulFinish"))
    => ~(SideHit("peacefulFinish") /\ SideHit("lateVolatility"))

\* C1 witness: a series that meets peacefulFinish's own thresholds and on
\* which lateVolatility hits; peacefulFinish is not reported.
C1_Witness ==
  /\ sideEval.done
  /\ SideEnabled("lateVolatility") /\ SideEnabled("peacefulFinish")
  /\ SideHit("lateVolatility")
  /\ InWindowIdx # {} /\ PeacefulFinishRaw(sideEval.config)
  /\ ~SideHit("peacefulFinish")

\* C6 as claimed: lateVolatility is reported exactly when, among the
\* time-ordered points of the last 2 minutes, some point is >= highThreshold
\* and a later point is < lowThreshold.
C6_LateVolatilityLaterPoint ==
  (sideEval.done /\ SideEnabled("lateVolatility"))
    => (SideHit("lateVolatility") <=> LateVolatilityLater(sideEval.config))

\* C6 amended: lateVolatility is reported exactly when some point of the
\* last 2 minutes is >= highThreshold and that point or a later one is
\* < lowThreshold (one point does both only when lowThreshold lies above
\* highThreshold).
C6_LateVolatilitySameOrLaterPoint ==
  (sideEval.done /\ SideEnabled("lateVolatility"))
    => (SideHit("lateVolatility") <=> LateVolatilitySameOrLater(sideEval.config))

\* C6 witness: lateVolatility hits on a rise followed by a later drop.
C6_Witness ==
  /\ sideEval.done /\ SideEnabled("lateVolatility")
  /\ SideHit("lateVolatility")
  /\ LateVolatilityLater(sideEval.config)

\* C7: peacefulFinish is reported exactly when the last-2-minute sub-series
\* is non-empty, the latest in-window price is >= finalPriceThreshold, the
\* largest drop from the running high over the last 2 minutes is
\* <= maxDrawdownAbsThreshold, and lateVolatility did not hit on the side;
\* the reported drawdown is that largest drop.
C7_PeacefulFinishExactly ==
  (sideEval.done /\ SideEnabled("peacefulFinish"))
    => /\ SideHit("peacefulFinish")
            <=> (/\ InWindowIdx # {}
                 /\ PeacefulFinishRaw(sideEval.config)
                 /\ ~SideHit("lateVolatility"))
       /\ Last2mIdx # {}
            => sideEval.result.metricsByPattern["peacefulFinish"].max_drawdown_abs
                 = SpecMaxDrawdown

\* C7 witness: peacefulFinish hits on a series that did drop, within the
\* threshold, in the last 2 minutes.
C7_Witness ==
  /\ sideEval.done /\ SideEnabled("peacefulFinish")
  /\ SideHit("peacefulFinish")
  /\ SpecMaxDrawdown > 0

\* the up series of the extremeReversal scenario, relative to 1771427100000
ScenarioReversalSeries == <<Pt(0, 500), Pt(100000, 990), Pt(295000, 5)>>

\* C8: extremeReversal is reported exactly when the maximum in-window price
\* is >= maxPriceThreshold and the latest in-window price is
\* <= finalPriceThreshold, its metrics are those two values, and the
\* scenario series hits under the default thresholds with 0.99 and 0.005.
C8_ExtremeReversalExactly ==
  (sideEval.done /\ SideEnabled("extremeReversal"))
    => /\ InWindowIdx = {} => ~SideHit("extremeReversal")
       /\ InWindowIdx # {} =>
            /\ SideHit("extremeReversal")
                 <=> (/\ SpecFullMax
                           >= sideEval.config.patterns["extremeReversal"].params.maxPriceThreshold
                      /\ SpecFinalPrice
                           <= sideEval.config.patterns["extremeReversal"].params.finalPriceThreshold)
            /\ sideEval.result.metricsByPattern["extremeReversal"]
                 = [max_price |-> SpecFullMax, final_price |-> SpecFinalPrice]
       /\ (sidePts = ScenarioReversalSeries
             /\ sideEval.config.patterns["extremeReversal"].params
                  = DefaultParams["extremeReversal"])
            => /\ SideHit("extremeReversal")
               /\ sideEval.result.metricsByPattern["extremeReversal"]
                    = [max_price |-> 990, final_price |-> 5]

\* C8 witness: the scenario series evaluated under the default configuration.
C8_Witness ==
  /\ sideEval.done
  /\ sidePts = ScenarioReversalSeries
  /\ sideEval.config = normalizePatternConfig(DEFAULT_PATTERN_CONFIG)
  /\ SideHit("extremeReversal")

\* ------------------------------------------------------------------------
\* SpecWindow: one window directory, read by the CLI (loadPartitionedWindows,
\* finalizeWindow, analyzeWindows) and by the replay server
\* (buildIntervalsFromWindowDirs, computePatternInfoForInterval,
\* buildPatternSummary)
\* ------------------------------------------------------------------------
MaxWinPoints == 2

WindowDate == "2026-02-18"

WindowId == "btc-updown-5m-1771427100"

\* Points of the two sides: with (0, 990) the other two give a coverage of
\* 239999 and of exactly 240000; (239999, 990) then (240000, 5) is a late
\* rise and drop.
WinPointValues == { Pt(0, 990), Pt(239999, 990), Pt(240000, 5) }

\* What btc_reference.jsonl holds, in file order: nothing, a coverage of
\* 239999, a coverage of exactly 240000 (out of order)
BtcSeriesChoices ==
  { <<>>, <<Pt(0, 1), Pt(239999, 1)>>, <<Pt(240000, 1), Pt(0, 1)>> }

\* the default thresholds
WinDefaults ==
  [extremeReversal |-> <<>>, lateVolatility |-> <<>>, peacefulFinish |-> <<>>]

\* a peacefulFinish that nearly every series meets
WinLoosePeaceful ==
  [extremeReversal |-> <<>>, lateVolatility |-> <<>>,
   peacefulFinish |-> [finalPriceThreshold |-> 5, maxDrawdownAbsThreshold |-> 1000]]

\* pattern configurations of the window: everything enabled, and each pattern
\* disabled in one of them
WinRawConfigs ==
  { RawConfig(<<TRUE, TRUE, TRUE>>, WinDefaults),
    RawConfig(<<TRUE, TRUE, TRUE>>, WinLoosePeaceful),
    RawConfig(<<TRUE, FALSE, TRUE>>, WinLoosePeaceful),
    RawConfig(<<TRUE, TRUE, FALSE>>, WinDefaults),
    RawConfig(<<FALSE, FALSE, TRUE>>, WinDefaults) }

InitWindow ==
  /\ win = newWindow(WindowDate, WindowId, WindowId, MarketMeta(WindowStartMs))
  /\ winPc = "loading"
  /\ winOut = <<>>
  /\ SideIdle
  /\ StoreIdle
  /\ MoreIdle

\* a row of updown_state.jsonl is read: window.sidePoints[side].push
WinPushSide ==
  /\ winPc = "loading"
  /\ \E side \in {"up", "down"}, p \in WinPointValues :
       /\ Len(win.sidePoints[side]) < MaxWinPoints
       /\ win' = [win EXCEPT !.sidePoints[side] = Append(@, p)]
  /\ UNCHANGED <<winPc, winOut, sideVars, storeVars, moreVars>>

\* CLI: btc_reference.jsonl is read into btcPoints, then finalizeWindow
WinFinalize ==
  /\ winPc = "loading"
  /\ \E btc \in BtcSeriesChoices :
       win' = finalizeWindow([win EXCEPT !.btcPoints = btc])
  /\ winPc' = "finalized"
  /\ UNCHANGED <<winOut, sideVars, storeVars, moreVars>>

\* CLI: analyzeWindows(windows, includeIncomplete, counters, patternConfig)
WinAnalyze ==
  /\ winPc = "finalized"
  /\ \E includeIncomplete \in BOOLEAN, raw \in WinRawConfigs :
       winOut' = [includeIncomplete |-> includeIncomplete,
                  config |-> normalizePatternConfig(raw),
                  analyzed |-> analyzeWindows(<<win>>, includeIncomplete, raw)]
  /\ winPc' = "analyzed"
  /\ UNCHANGED <<win, sideVars, storeVars, moreVars>>

\* server: buildIntervalsFromWindowDirs reads the two files of the window
WinBuildInterval ==
  /\ winPc = "loading"
  /\ \E btc \in BtcSeriesChoices :
       /\ win' = [win EXCEPT !.btcPoints = btc]
       /\ winOut' = [interval |-> BuildInterval(WindowId, WindowStartMs,
                                                win.sidePoints.up, win.sidePoints.down, btc)]
  /\ winPc' = "interval"
  /\ UNCHANGED <<sideVars, storeVars, moreVars>>

\* server: computePatternInfoForInterval and buildPatternSummary for the
\* interval (a window directory that yields no interval is not reported)
WinServe ==
  /\ winPc = "interval"
  /\ winOut.interval.exists
  /\ \E includeIncomplete \in BOOLEAN, raw \in WinRawConfigs :
       LET interval == winOut.interval
           config == normalizePatternConfig(raw)
           info == computePatternInfoForInterval(WindowDate, interval,
                     includeIncomplete, config, win.sidePoints)
           byWindowId == [k \in {getIntervalPatternKey(interval)} |-> info]
       IN  winOut' = [interval |-> interval,
                      includeIncomplete |-> includeIncomplete,
                      config |-> config,
                      info |-> info,
                      summary |-> buildPatternSummary(<<interval>>, byWindowId,
                                                      includeIncomplete)]
  /\ winPc' = "served"
  /\ UNCHANGED <<win, sideVars, storeVars, moreVars>>

NextWindow ==
  \/ WinPushSide
  \/ WinFinalize
  \/ WinAnalyze
  \/ WinBuildInterval
  \/ WinServe

SpecWindow == InitWindow /\ [][NextWindow]_vars

\* last timestamp minus first timestamp of a series, 0 for at most one point
SpecCoverage(series) ==
  LET T == {series[i].ts : i \in 1..Len(series)}
  IN  IF Len(series) <= 1 THEN 0
      ELSE (CHOOSE hi \in T : \A t \in T : t <= hi)
             - (CHOOSE lo \in T : \A t \in T : lo <= t)

SpecOddsCoverage == Max2(SpecCoverage(win.sidePoints.up), SpecCoverage(win.sidePoints.down))

SpecComplete == SpecCoverage(win.btcPoints) >= 240000 /\ SpecOddsCoverage >= 240000

WinFinalized == winPc \in {"finalized", "analyzed"}

WinHasInterval == winPc \in {"interval", "served"} /\ winOut.interval.exists

\* C2: a finalized window, and an interval of the replay server, is complete
\* exactly when its reference coverage and its odds coverage (the larger of
\* the two side coverages) are both at least 240000 ms, each coverage being
\* last minus first timestamp of the series.
C2_CompleteExactly ==
  /\ WinFinalized =>
       /\ win.coverage = [upCoverageMs |-> SpecCoverage(win.sidePoints.up),
                          downCoverageMs |-> SpecCoverage(win.sidePoints.down),
                          oddsCoverageMs |-> SpecOddsCoverage,
                          btcCoverageMs |-> SpecCoverage(win.btcPoints)]
       /\ win.isComplete <=> SpecComplete
  /\ WinHasInterval =>
       /\ winOut.interval.btcCoverageMs = SpecCoverage(win.btcPoints)
       /\ winOut.interval.oddsCoverageMs = SpecOddsCoverage
       /\ winOut.interval.isComplete <=> SpecComplete

\* C2 witness: a finalized window with exactly 240000 ms on both axes, complete.
C2_Witness ==
  /\ winPc = "finalized"
  /\ SpecCoverage(win.btcPoints) = 240000
  /\ SpecOddsCoverage = 240000
  /\ win.isComplete

\* a finalized window one millisecond short on the odds axis is not complete
C2_ShortByOne ==
  /\ winPc = "finalized"
  /\ SpecCoverage(win.btcPoints) = 240000
  /\ SpecOddsCoverage = 239999
  /\ ~win.isComplete

\* the analysis reports patternId on side of the window
WinReported(patternId, side) ==
  IF winPc = "analyzed"
  THEN \E n \in 1..Len(winOut.analyzed.hits[patternId]) :
         winOut.analyzed.hits[patternId][n].side = side
  ELSE \E n \in 1..Len(winOut.info.patternSideHits[patternId]) :
         winOut.info.patternSideHits[patternId][n].side = side

\* evaluateSidePatterns reports patternId on the side's series
WinSideHit(patternId, side) ==
  LET result == evaluateSidePatterns(win.sidePoints[side], win.startMs, win.endMs,
                                     winOut.config)
  IN  result.hasData /\ result.hits[patternId]

WinAnalysed == winPc \in {"analyzed", "served"}

WinIsComplete == IF winPc = "analyzed" THEN win.isComplete ELSE winOut.interval.isComplete

\* C5: with includeIncomplete false an incomplete window is not evaluated:
\* no hit, no per-pattern window count, not counted, an empty patterns list;
\* with includeIncomplete true the window is counted and every hit of an
\* enabled pattern on one of its sides is reported.
C5_IncompleteGate ==
  /\ (winPc = "analyzed" /\ ~winOut.includeIncomplete /\ ~win.isComplete) =>
       /\ \A id \in PatternIds :
            winOut.analyzed.hits[id] = <<>> /\ winOut.analyzed.counts[id] = 0
       /\ winOut.analyzed.countedWindows = 0
  /\ (winPc = "served" /\ ~winOut.includeIncomplete /\ ~winOut.interval.isComplete) =>
       /\ winOut.info.patterns = <<>>
       /\ \A id \in PatternIds :
            winOut.info.patternSideHits[id] = <<>> /\ winOut.summary.windowCount[id] = 0
       /\ winOut.summary.countedWindows = 0
  /\ (WinAnalysed /\ winOut.includeIncomplete) =>
       /\ IF winPc = "analyzed" THEN winOut.analyzed.countedWindows = 1
                                ELSE winOut.summary.countedWindows = 1
       /\ \A id \in PatternIds, side \in {"up", "down"} :
            WinReported(id, side)
              <=> (winOut.config.patterns[id].enabled /\ WinSideHit(id, side))

\* C5 witness: an incomplete window with a side that hits a pattern, analysed
\* with includeIncomplete false.
C5_Witness ==
  /\ winPc = "analyzed" /\ ~winOut.includeIncomplete /\ ~win.isComplete
  /\ \E id \in PatternIds, side \in {"up", "down"} :
       winOut.config.patterns[id].enabled /\ WinSideHit(id, side)

\* C14: every window a loader returns (the window the CLI finalizes and
\* pushes, the interval of the replay server) has at least one reference
\* point and at least one point on the up or the down side, and a window
\* directory without them yields no interval
C14_LoadedWindowHasPoints ==
  /\ WinFinalized =>
       /\ Len(win.btcPoints) > 0
       /\ Len(win.sidePoints.up) + Len(win.sidePoints.down) > 0
  /\ winPc \in {"interval", "served"} =>
       (winOut.interval.exists <=>
          /\ Len(win.btcPoints) > 0
          /\ Len(win.sidePoints.up) + Len(win.sidePoints.down) > 0)

\* the window of the directory with one more point in one of its series
WithPoint(window, series, p) ==
  IF series = "btc" THEN [window EXCEPT !.btcPoints = Append(@, p)]
  ELSE [window EXCEPT !.sidePoints[series] = Append(@, p)]

\* the window the loader has read so far, with the rows of btc_reference.jsonl
WinLoaded(btc) == [win EXCEPT !.btcPoints = btc]

\* C19: one more point in a series, wherever its timestamp falls, never
\* lowers a coverage finalizeWindow computes, and never makes a window
\* incomplete that is complete without it
C19_CoverageMonotone ==
  winPc = "loading" =>
    \A btc \in BtcSeriesChoices, series \in {"up", "down", "btc"},
       p \in WinPointValues :
      LET without == finalizeWindow(WinLoaded(btc))
          with == finalizeWindow(WithPoint(WinLoaded(btc), series, p))
      IN  /\ with.coverage.upCoverageMs >= without.coverage.upCoverageMs
          /\ with.coverage.downCoverageMs >= without.coverage.downCoverageMs
          /\ with.coverage.oddsCoverageMs >= without.coverage.oddsCoverageMs
          /\ with.coverage.btcCoverageMs >= without.coverage.btcCoverageMs
          /\ without.isComplete => with.isComplete

\* rows that make a complete window, read out of order, to which a point
\* earlier than the last row read can be added; and rows one millisecond
\* short to which a point can be added that completes the window
C19_Witness ==
  /\ winPc = "loading"
  /\ Len(win.sidePoints.up) = 2
  /\ win.sidePoints.up[1].ts > win.sidePoints.up[2].ts
  /\ \E btc \in BtcSeriesChoices : finalizeWindow(WinLoaded(btc)).isComplete
  /\ \E p \in WinPointValues : p.ts < win.sidePoints.up[1].ts /\ p.ts > win.sidePoints.up[2].ts
  /\ Len(win.sidePoints.down) = 2
  /\ computeCoverageMs(sortPoints(win.sidePoints.down)) = COMPLETE_MIN_MS - 1

\* the window loadPartitionedWindows builds when it reads the same rows again
WinRebuilt(btc) ==
  finalizeWindow(
    [newWindow(WindowDate, WindowId, WindowId, MarketMeta(WindowStartMs)) EXCEPT
       !.sidePoints = win.sidePoints, !.btcPoints = btc])

SeriesPeacefulFinish(series, config) ==
  LET In == {i \in 1..Len(series) :
               series[i].ts >= WindowStartMs /\ series[i].ts <= WindowEndMs}
      Late == {i \in In : series[i].ts >= WindowEndMs - 120000}
      Before(i, j) == \/ series[i].ts < series[j].ts
                      \/ series[i].ts = series[j].ts /\ i < j
      last == CHOOSE i \in In : \A j \in In : j = i \/ Before(j, i)
      params == config.patterns["peacefulFinish"].params
  IN  /\ Late # {}
      /\ series[last].price >= params.finalPriceThreshold
      /\ \A i \in Late, j \in Late :
           Before(j, i) => series[j].price - series[i].price <= params.maxDrawdownAbsThreshold

\* lateVolatility's condition on a series
SeriesLateVolatility(series, config) ==
  LET Late == {i \in 1..Len(series) :
                 /\ series[i].ts >= WindowEndMs - 120000
                 /\ series[i].ts <= WindowEndMs}
      params == config.patterns["lateVolatility"].params
  IN  \E i \in Late, j \in Late :
        /\ series[i].ts < series[j].ts \/ (series[i].ts = series[j].ts /\ i <= j)
        /\ series[i].price >= params.highThreshold
        /\ series[j].price < params.lowThreshold

\* C9: a disabled pattern is reported on no side and counted for no window,
\* and with lateVolatility disabled peacefulFinish is reported on every
\* evaluated side that meets its own three conditions, and on no other.
C9_DisabledPattern ==
  WinAnalysed =>
    /\ \A id \in PatternIds :
         ~winOut.config.patterns[id].enabled =>
           /\ \A side \in {"up", "down"} : ~WinReported(id, side)
           /\ IF winPc = "analyzed" THEN winOut.analyzed.counts[id] = 0
              ELSE /\ winOut.summary.windowCount[id] = 0
                   /\ \A n \in 1..Len(winOut.info.patterns) : winOut.info.patterns[n] # id
    /\ (/\ ~winOut.config.patterns["lateVolatility"].enabled
        /\ winOut.config.patterns["peacefulFinish"].enabled
        /\ winOut.includeIncomplete \/ WinIsComplete) =>
         \A side \in {"up", "down"} :
           WinReported("peacefulFinish", side)
             <=> SeriesPeacefulFinish(win.sidePoints[side], winOut.config)

\* C9 witness: lateVolatility is disabled and peacefulFinish is reported on
\* a side whose series meets lateVolatility's condition.
C9_Witness ==
  /\ winPc = "analyzed"
  /\ ~winOut.config.patterns["lateVolatility"].enabled
  /\ \E side \in {"up", "down"} :
       /\ WinReported("peacefulFinish", side)
       /\ SeriesLateVolatility(win.sidePoints[side], winOut.config)

\* ------------------------------------------------------------------------
\* Replay server: the pattern index of one partitioned date
\* (replayServer.js, buildIntervalsWithPatterns), with the collector
\* appending to the window's updown_state.jsonl meanwhile
\* ------------------------------------------------------------------------
PATTERN_STORE_SCHEMA_VERSION == 1

\* evictPatternCacheIfNeeded(maxSize = 32)
PatternCacheMaxSize == 32

Row(side, ts, price) == [side |-> side, ts |-> ts, price |-> price]

\* The rows the collector appends to updown_state.jsonl of the window, in
\* order; the file holds a prefix of them.  After two rows the up side is
\* one millisecond short of complete and ends high; the fourth row
\* completes the window with a drop.
UpdownScript ==
  << Row("up", 0, 990), Row("up", 239999, 990),
     Row("down", 240000, 990), Row("up", 240000, 5) >>

\* btc_reference.jsonl of the window, fully written
StoreBtcRows == <<Pt(0, 1), Pt(240000, 1)>>

\* the rows of one side in the first n rows of the file, as { ts, price }
SideRowsAt(n, side) ==
  LET OfSide(r) == r.side = side
      rows == SelectSeq(SubSeq(UpdownScript, 1, n), OfSide)
  IN  [k \in 1..Len(rows) |-> Pt(rows[k].ts, rows[k].price)]

\* loadSidePointsForInterval on a partitioned date, the file holding n rows
loadSidePointsForInterval(n) ==
  [up |-> SideRowsAt(n, "up"), down |-> SideRowsAt(n, "down")]

\* buildIntervalsFromWindowDirs, the file holding n rows
buildIntervalsFromWindowDirs(n) ==
  LET interval == BuildInterval(WindowId, WindowStartMs, SideRowsAt(n, "up"),
                                SideRowsAt(n, "down"), StoreBtcRows)
  IN  IF interval.exists THEN <<interval>> ELSE <<>>

\* statSignature(filePath): path, size and mtime.  The files only grow, so
\* the number of rows stands for size and mtime; 0 rows is a missing file.
statSignature(filePath, rows) == [path |-> filePath, rows |-> rows]

\* computeDayPatternSignature on the partitioned date: the hashed parts
\* (sha256 is taken to be injective).  The window directory changes when
\* updown_state.jsonl is created in it.
computeDayPatternSignature(n) ==
  << statSignature("dayDir", 1),
     statSignature("windowDir", IF n > 0 THEN 2 ELSE 1),
     statSignature("updown_state.jsonl", n),
     statSignature("btc_reference.jsonl", Len(StoreBtcRows)) >>

\* getIntervalSourceSignature(date, interval, true), the file holding n rows
getIntervalSourceSignature(interval, n) ==
  [key |-> getIntervalPatternKey(interval),
   startMs |-> interval.startMs,
   endMs |-> interval.endMs,
   isComplete |-> interval.isComplete,
   btcCoverageMs |-> interval.btcCoverageMs,
   oddsCoverageMs |-> interval.oddsCoverageMs,
   upCoverageMs |-> interval.upCoverageMs,
   downCoverageMs |-> interval.downCoverageMs,
   updown |-> statSignature("updown_state.jsonl", n),
   btc |-> statSignature("btc_reference.jsonl", Len(StoreBtcRows))]

\* sha256 of stableStringify(value), taken to be injective
ConfigHash(value) == <<"sha256", value>>

\* PATTERN_CONFIG_CACHE as the module creates it
InitialConfigCache ==
  [signature |-> "",
   value |-> normalizePatternConfig(DEFAULT_PATTERN_CONFIG),
   hash |-> ConfigHash(normalizePatternConfig(DEFAULT_PATTERN_CONFIG)),
   patternSetVersion |-> normalizePatternConfig(DEFAULT_PATTERN_CONFIG).patternSetVersion]

\* resolvePatternConfigState(): the cache it leaves; the state it returns
\* is the cache without the signature
resolvePatternConfigState(cache, file) ==
  IF cache.signature = file.signature THEN cache
  ELSE LET value == normalizePatternConfig(file.raw)
       IN  [signature |-> file.signature,
            value |-> value,
            hash |-> ConfigHash(value),
            patternSetVersion |-> value.patternSetVersion]

\* `${date}|${includeIncomplete ? "1" : "0"}|${hash}|${daySignature}`
PatternCacheKey(date, includeIncomplete, hash, daySignature) ==
  [date |-> date, includeIncomplete |-> includeIncomplete, hash |-> hash,
   daySignature |-> daySignature]

\* getPatternStorePath: the parts of the file name
getPatternStorePath(date, includeIncomplete, patternSetVersion, paramsHash) ==
  [date |-> date, inc |-> includeIncomplete, set |-> patternSetVersion,
   hash |-> paramsHash]

NoStore == [exists |-> FALSE]

\* a readPatternStore that returns the document of any schema version
readPatternStoreAnyVersion(files, filePath) ==
  IF filePath \notin DOMAIN files \/ ~files[filePath].exists THEN NoStore
  ELSE IF "unparsable" \in DOMAIN files[filePath] THEN NoStore
  ELSE IF "scalar" \in DOMAIN files[filePath] THEN NoStore
  ELSE files[filePath]

\* readPatternStore(filePath): null when the file is missing, when
\* JSON.parse throws (unparsable), when the value parsed is not an object
\* (scalar) and when its schemaVersion is not the current one
readPatternStore(files, filePath) ==
  IF filePath \notin DOMAIN files \/ ~files[filePath].exists THEN NoStore
  ELSE IF "unparsable" \in DOMAIN files[filePath] THEN NoStore
  ELSE IF "scalar" \in DOMAIN files[filePath] THEN NoStore
  ELSE IF "schemaVersion" \notin DOMAIN files[filePath] THEN NoStore
  ELSE IF files[filePath].schemaVersion # PATTERN_STORE_SCHEMA_VERSION THEN NoStore
  ELSE files[filePath]

\* PATTERN_CACHE.get(key): the position of the entry, 0 when absent
CacheIndex(cache, key) ==
  IF \E n \in 1..Len(cache) : cache[n].key = key
  THEN CHOOSE n \in 1..Len(cache) : cache[n].key = key
  ELSE 0

\* PATTERN_CACHE.set(key, value): a Map keeps the position of a key it has
CacheSet(cache, key, value) ==
  IF CacheIndex(cache, key) > 0
  THEN [cache EXCEPT ![CacheIndex(cache, key)] = [key |-> key, value |-> value]]
  ELSE Append(cache, [key |-> key, value |-> value])

\* an eviction that deletes the last keys instead of the first
evictPatternCacheNewest(cache, maxSize) ==
  IF Len(cache) > maxSize THEN SubSeq(cache, 1, maxSize) ELSE cache

RECURSIVE evictPatternCacheIfNeeded(_, _)
\* while (PATTERN_CACHE.size > maxSize) delete the first key
evictPatternCacheIfNeeded(cache, maxSize) ==
  IF Len(cache) > maxSize THEN evictPatternCacheIfNeeded(Tail(cache), maxSize)
  ELSE cache

\* existingWindows[key] of buildPatternIndexForDate, undefined when absent
PrevRecord(existingStore, key) ==
  IF existingStore.exists /\ key \in DOMAIN existingStore.windows
  THEN [found |-> TRUE, record |-> existingStore.windows[key]]
  ELSE [found |-> FALSE]

\* mutant: a stored record is reused whatever its sourceSignature
canReuseAnySource(prev, sourceSignature, configState, includeIncomplete) ==
  /\ prev.found
  /\ prev.record.paramsHash = configState.hash
  /\ prev.record.patternSetVersion = configState.patternSetVersion
  /\ prev.record.includeIncomplete = includeIncomplete

\* canReuse of buildPatternIndexForDate (lines 777-783)
canReuse(prev, sourceSignature, configState, includeIncomplete) ==
  /\ prev.found
  /\ prev.record.sourceSignature = sourceSignature
  /\ prev.record.paramsHash = configState.hash
  /\ prev.record.patternSetVersion = configState.patternSetVersion
  /\ prev.record.includeIncomplete = includeIncomplete

\* the record built from a computed info (lines 796-810), without computedAtMs
ComputedRecord(interval, includeIncomplete, sourceSignature, configState, info) ==
  [windowId |-> getIntervalPatternKey(interval),
   marketSlug |-> IF interval.marketSlug # "" THEN interval.marketSlug
                  ELSE getIntervalPatternKey(interval),
   windowStartMs |-> interval.startMs,
   windowEndMs |-> interval.endMs,
   isComplete |-> interval.isComplete,
   includeIncomplete |-> includeIncomplete,
   sourceSignature |-> sourceSignature,
   patternSetVersion |-> configState.patternSetVersion,
   paramsHash |-> configState.hash,
   patterns |-> info.patterns,
   patternPrimary |-> info.patternPrimary,
   patternSideHits |-> info.patternSideHits]

\* storeChanged after the loop (lines 819-844); computed: some record was
\* recomputed
StoreChanged(existingStore, nextWindows, computed, date, includeIncomplete, configState, daySignature) ==
  \/ ~existingStore.exists
  \/ computed
  \/ DOMAIN existingStore.windows # DOMAIN nextWindows
  \/ existingStore.date # date
  \/ existingStore.includeIncomplete # includeIncomplete
  \/ existingStore.patternSetVersion # configState.patternSetVersion
  \/ existingStore.paramsHash # configState.hash
  \/ existingStore.daySignature # daySignature

\* the payload written to the store (lines 847-857), without configPath and
\* updatedAtMs
StorePayload(date, includeIncomplete, configState, daySignature, nextWindows) ==
  [exists |-> TRUE,
   schemaVersion |-> PATTERN_STORE_SCHEMA_VERSION,
   date |-> date,
   includeIncomplete |-> includeIncomplete,
   patternSetVersion |-> configState.patternSetVersion,
   paramsHash |-> configState.hash,
   daySignature |-> daySignature,
   windows |-> nextWindows]

\* the value buildPatternIndexForDate caches and returns (lines 861-864)
IndexValue(intervals, nextWindows, includeIncomplete) ==
  LET byWindowId == [k \in DOMAIN nextWindows |-> normalizePatternInfo(nextWindows[k])]
  IN  [summary |-> buildPatternSummary(intervals, byWindowId, includeIncomplete),
       byWindowId |-> byWindowId]

\* what buildIntervalsWithPatterns returns (lines 872-887)
Response(date, intervals, patternIndex) ==
  [date |-> date,
   intervals |->
     [i \in 1..Len(intervals) |->
        LET key == getIntervalPatternKey(intervals[i])
            patternInfo == IF key \in DOMAIN patternIndex.byWindowId
                           THEN patternIndex.byWindowId[key] ELSE emptyPatternInfo
        IN  [interval |-> intervals[i],
             patterns |-> patternInfo.patterns,
             patternPrimary |-> patternInfo.patternPrimary,
             patternSideHits |-> patternInfo.patternSideHits]],
   patternSummary |-> patternIndex.summary]

\* The index of a call during which the files do not change: intervals,
\* signatures and side points all read with n rows in the file, no store
\* on disk.  nextWindows holds the record of the window, if it has an interval.
QuietWindows(n, includeIncomplete, configState) ==
  LET intervals == buildIntervalsFromWindowDirs(n)
  IN  IF intervals = <<>> THEN <<>>
      ELSE LET interval == intervals[1]
               info == computePatternInfoForInterval(WindowDate, interval,
                         includeIncomplete, configState.value,
                         loadSidePointsForInterval(n))
           IN  [k \in {getIntervalPatternKey(interval)} |->
                  ComputedRecord(interval, includeIncomplete,
                                 getIntervalSourceSignature(interval, n),
                                 configState, info)]

\* the store document such a call writes
QuietStore(n, includeIncomplete, raw) ==
  LET configState == resolvePatternConfigState(InitialConfigCache,
                       [signature |-> "config", raw |-> raw])
  IN  StorePayload(WindowDate, includeIncomplete, configState,
                   computeDayPatternSignature(n),
                   QuietWindows(n, includeIncomplete, configState))

\* ------------------------------------------------------------------------
\* SpecStore: calls of buildIntervalsWithPatterns for the date, one at a
\* time, interleaved with appends of the collector and restarts of the server
\* ------------------------------------------------------------------------
MaxQueries == 2

\* the pattern configuration file of the server
ConfigFile == [signature |-> "config", raw |-> RawConfig(<<TRUE, TRUE, TRUE>>, WinDefaults)]

\* another configuration, under which a store found on disk may have been
\* written: another patternSetVersion, lateVolatility disabled, a loose
\* peacefulFinish
OtherRawConfig ==
  [patternSetVersion |-> "2",
   patterns |-> RawConfig(<<TRUE, FALSE, TRUE>>, WinLoosePeaceful).patterns]

\* the store path of the server's configuration
OwnStorePath(includeIncomplete) ==
  LET configState == resolvePatternConfigState(InitialConfigCache, ConfigFile)
  IN  getPatternStorePath(WindowDate, includeIncomplete,
                          configState.patternSetVersion, configState.hash)

NoStores == [p \in {OwnStorePath(FALSE), OwnStorePath(TRUE)} |-> NoStore]

\* What the derived directory holds when the server starts: nothing, or,
\* at the path of includeIncomplete = false, a document this code wrote
\* for the full log under the other flag or the other configuration (a file
\* copied or renamed into place).
InitialStores ==
  {NoStores} \cup
  { [NoStores EXCEPT ![OwnStorePath(FALSE)] = QuietStore(Len(UpdownScript), w[1], w[2])] :
      w \in { <<TRUE, ConfigFile.raw>>, <<FALSE, OtherRawConfig>>, <<TRUE, OtherRawConfig>> } }

Idle == [pc |-> "idle"]

InitStore ==
  /\ updRows = 0
  /\ cfgFile = ConfigFile
  /\ cfgCache = InitialConfigCache
  /\ patternCache = <<>>
  /\ stores \in InitialStores
  /\ call = Idle
  /\ resp = [present |-> FALSE]
  /\ nQueries = 0
  /\ SideIdle
  /\ WindowIdle
  /\ MoreIdle

\* the collector appends the next row to updown_state.jsonl
CollectorAppend ==
  /\ updRows < Len(UpdownScript)
  /\ updRows' = updRows + 1
  /\ UNCHANGED <<cfgFile, cfgCache, patternCache, stores, call, resp, nQueries,
                 sideVars, winVars, moreVars>>

\* the server process is restarted between two calls: the in-memory caches
\* are those of a fresh module
Restart ==
  /\ call = Idle
  /\ patternCache # <<>>
  /\ patternCache' = <<>>
  /\ cfgCache' = InitialConfigCache
  /\ UNCHANGED <<updRows, cfgFile, stores, call, resp, nQueries, sideVars, winVars, moreVars>>

\* buildIntervalsWithPatterns(date, includeIncomplete) up to the end of
\* "await buildIntervals"
QueryStart ==
  /\ call = Idle
  /\ nQueries < MaxQueries
  /\ \E includeIncomplete \in BOOLEAN :
       call' = [pc |-> "index",
                includeIncomplete |-> includeIncomplete,
                intervals |-> buildIntervalsFromWindowDirs(updRows),
                startRows |-> updRows]
  /\ nQueries' = nQueries + 1
  /\ UNCHANGED <<updRows, cfgFile, cfgCache, patternCache, stores, resp,
                 sideVars, winVars, moreVars>>

\* the end of buildPatternIndexForDate and of the call (lines 819-887): the
\* store is written if it changed, the value is cached and returned
FinishIndex(c, nextWindows, computed, log) ==
  LET value == IndexValue(c.intervals, nextWindows, c.includeIncomplete)
  IN  /\ stores' =
           IF StoreChanged(c.existingStore, nextWindows, computed, WindowDate,
                           c.includeIncomplete, c.configState, c.daySignature)
           THEN [stores EXCEPT ![c.storePath] =
                   StorePayload(WindowDate, c.includeIncomplete, c.configState,
                                c.daySignature, nextWindows)]
           ELSE stores
      /\ patternCache' =
           evictPatternCacheIfNeeded(CacheSet(patternCache, c.cacheKey, value),
                                     PatternCacheMaxSize)
      /\ resp' = [present |-> TRUE,
                  body |-> Response(WindowDate, c.intervals, value),
                  log |-> log]
      /\ call' = Idle

\* buildPatternIndexForDate from its first line to its first await: the
\* cached value is returned on a hit; otherwise the store is read and the
\* loop decides on the window's record, which is reused at once or computed
\* after an await.  With no interval the call ends here as well.
IndexStart ==
  /\ call.pc = "index"
  /\ LET includeIncomplete == call.includeIncomplete
         daySignature == computeDayPatternSignature(updRows)
         patternConfigState == resolvePatternConfigState(cfgCache, cfgFile)
         cacheKey == PatternCacheKey(WindowDate, includeIncomplete,
                                     patternConfigState.hash, daySignature)
         cached == CacheIndex(patternCache, cacheKey)
         storePath == getPatternStorePath(WindowDate, includeIncomplete,
                        patternConfigState.patternSetVersion, patternConfigState.hash)
         existingStore == readPatternStore(stores, storePath)
         c == [pc |-> "compute",
               includeIncomplete |-> includeIncomplete,
               intervals |-> call.intervals,
               startRows |-> call.startRows,
               daySignature |-> daySignature,
               configState |-> patternConfigState,
               cacheKey |-> cacheKey,
               storePath |-> storePath,
               existingStore |-> existingStore]
     IN  /\ cfgCache' = patternConfigState
         /\ IF cached > 0
            THEN /\ resp' = [present |-> TRUE,
                             body |-> Response(WindowDate, call.intervals,
                                               patternCache[cached].value),
                             log |-> [kind |-> "cached",
                                      includeIncomplete |-> includeIncomplete,
                                      startRows |-> call.startRows]]
                 /\ call' = Idle
                 /\ UNCHANGED <<patternCache, stores>>
            ELSE IF call.intervals = <<>>
            THEN FinishIndex(c, <<>>, FALSE,
                             [kind |-> "empty",
                              includeIncomplete |-> includeIncomplete,
                              startRows |-> call.startRows])
            ELSE LET interval == call.intervals[1]
                     key == getIntervalPatternKey(interval)
                     sourceSignature == getIntervalSourceSignature(interval, updRows)
                     prev == PrevRecord(existingStore, key)
                 IN  IF canReuse(prev, sourceSignature, patternConfigState,
                                 includeIncomplete)
                     THEN FinishIndex(c, [k \in {key} |-> prev.record], FALSE,
                                      [kind |-> "reused",
                                       includeIncomplete |-> includeIncomplete,
                                       startRows |-> call.startRows,
                                       signedRows |-> updRows,
                                       configState |-> patternConfigState,
                                       sourceSignature |-> sourceSignature,
                                       prev |-> prev,
                                       storePath |-> storePath])
                     ELSE /\ call' = [c EXCEPT !.pc = "compute"]
                                       @@ [sourceSignature |-> sourceSignature,
                                           prev |-> prev,
                                           signedRows |-> updRows]
                          /\ UNCHANGED <<patternCache, stores, resp>>
  /\ UNCHANGED <<updRows, cfgFile, nQueries, sideVars, winVars, moreVars>>

\* computePatternInfoForInterval returns: the side points are read from the
\* file as it is now, the record is built and the call ends
ComputeDone ==
  /\ call.pc = "compute"
  /\ LET interval == call.intervals[1]
         key == getIntervalPatternKey(interval)
         info == computePatternInfoForInterval(WindowDate, interval,
                   call.includeIncomplete, call.configState.value,
                   loadSidePointsForInterval(updRows))
         record == ComputedRecord(interval, call.includeIncomplete,
                                  call.sourceSignature, call.configState, info)
     IN  FinishIndex(call, [k \in {key} |-> record], TRUE,
                     [kind |-> "computed",
                      includeIncomplete |-> call.includeIncomplete,
                      startRows |-> call.startRows,
                      signedRows |-> call.signedRows,
                      readRows |-> updRows,
                      configState |-> call.configState,
                      sourceSignature |-> call.sourceSignature,
                      prev |-> call.prev,
                      storePath |-> call.storePath,
                      record |-> record])
  /\ UNCHANGED <<updRows, cfgFile, cfgCache, nQueries, sideVars, winVars, moreVars>>

NextStore ==
  \/ CollectorAppend
  \/ Restart
  \/ QueryStart
  \/ IndexStart
  \/ ComputeDone

SpecStore == InitStore /\ [][NextStore]_vars

\* the call that produced the last response consulted the store for the window
StoreConsulted == resp.present /\ resp.log.kind \in {"reused", "computed"}

\* the stored record carries the four current values
RecordMatches(record, sourceSignature, configState, includeIncomplete) ==
  /\ record.sourceSignature = sourceSignature
  /\ record.paramsHash = configState.hash
  /\ record.patternSetVersion = configState.patternSetVersion
  /\ record.includeIncomplete = includeIncomplete

\* C3: a call that consults the store reuses the window's stored record,
\* unchanged and without evaluating patterns, exactly when a record exists
\* whose sourceSignature, paramsHash, patternSetVersion and includeIncomplete
\* equal the current values; otherwise it evaluates the window and the store
\* then holds the new record, which carries the current values.
C3_ReuseExactlyWhenAllMatch ==
  StoreConsulted =>
    LET log == resp.log
        interval == resp.body.intervals[1].interval
        key == interval.windowId
        current == resolvePatternConfigState(InitialConfigCache, cfgFile)
        stored == stores[log.storePath].windows[key]
    IN  /\ log.configState = current
        /\ log.sourceSignature.updown.rows = log.signedRows
        /\ (log.kind = "reused")
             <=> (log.prev.found
                  /\ RecordMatches(log.prev.record, log.sourceSignature, current,
                                   log.includeIncomplete))
        /\ log.kind = "reused" =>
             /\ stored = log.prev.record
             /\ resp.body.intervals[1].patterns = log.prev.record.patterns
        /\ log.kind = "computed" =>
             /\ stored = log.record
             /\ RecordMatches(stored, log.sourceSignature, current, log.includeIncomplete)
             /\ resp.body.intervals[1].patterns = log.record.patterns

\* C3 witness: after a restart a call finds the record of an earlier call
\* and reuses it.
C3_Witness ==
  /\ StoreConsulted
  /\ resp.log.kind = "reused"
  /\ resp.body.intervals[1].patterns # <<>>

\* a record on disk is recomputed for a difference in includeIncomplete alone
C3_RecomputedForFlagAlone ==
  /\ StoreConsulted
  /\ resp.log.kind = "computed"
  /\ resp.log.prev.found
  /\ resp.log.prev.record.sourceSignature = resp.log.sourceSignature
  /\ resp.log.prev.record.paramsHash = resp.log.configState.hash
  /\ resp.log.prev.record.includeIncomplete # resp.log.includeIncomplete

\* ... or in its sourceSignature alone (the log grew since it was written)
C3_RecomputedForSourceAlone ==
  /\ StoreConsulted
  /\ resp.log.kind = "computed"
  /\ resp.log.prev.found
  /\ resp.log.prev.record.sourceSignature # resp.log.sourceSignature
  /\ resp.log.prev.record.paramsHash = resp.log.configState.hash
  /\ resp.log.prev.record.includeIncomplete = resp.log.includeIncomplete

\* ... or in its paramsHash, with it in its patternSetVersion
C3_RecomputedForHash ==
  /\ StoreConsulted
  /\ resp.log.kind = "computed"
  /\ resp.log.prev.found
  /\ resp.log.prev.record.sourceSignature = resp.log.sourceSignature
  /\ resp.log.prev.record.paramsHash # resp.log.configState.hash
  /\ resp.log.prev.record.includeIncomplete = resp.log.includeIncomplete

\* the number of rows of updown_state.jsonl a day signature describes
RowsOfSignature(daySignature) == daySignature[3].rows

\* the summary of a call that read its intervals with ni rows in the file
\* and the side points with np rows
SummaryFrom(ni, np, includeIncomplete) ==
  LET configState == resolvePatternConfigState(InitialConfigCache, ConfigFile)
      intervals == buildIntervalsFromWindowDirs(ni)
      byWindowId ==
        IF intervals = <<>> THEN <<>>
        ELSE [k \in {getIntervalPatternKey(intervals[1])} |->
                computePatternInfoForInterval(WindowDate, intervals[1],
                  includeIncomplete, configState.value, loadSidePointsForInterval(np))]
  IN  buildPatternSummary(intervals, byWindowId, includeIncomplete)

\* C4: every entry of the in-memory cache holds the summary of the file
\* state its day signature describes, and the summary of a response is
\* computed from data the files held when its call started or later.
C4_NoStaleSummary ==
  /\ \A n \in 1..Len(patternCache) :
       LET e == patternCache[n]
           rows == RowsOfSignature(e.key.daySignature)
       IN  e.value.summary = SummaryFrom(rows, rows, e.key.includeIncomplete)
  /\ resp.present =>
       \E ni \in resp.log.startRows..Len(UpdownScript) :
         \E np \in ni..Len(UpdownScript) :
           resp.body.patternSummary = SummaryFrom(ni, np, resp.log.includeIncomplete)

\* C10: every window of a response lists exactly the patterns with at least
\* one side hit, in the order extremeReversal, lateVolatility,
\* peacefulFinish, and patternPrimary is the first of them, or null.
C10_PatternsInPriorityOrder ==
  resp.present =>
    \A i \in 1..Len(resp.body.intervals) :
      LET w == resp.body.intervals[i]
          Listed(id) == IF Len(w.patternSideHits[id]) > 0 THEN <<id>> ELSE <<>>
          expected == Listed("extremeReversal") \o Listed("lateVolatility")
                        \o Listed("peacefulFinish")
      IN  /\ w.patterns = expected
          /\ w.patternPrimary = IF expected = <<>> THEN NoPattern ELSE expected[1]

\* C10 witness: a response built from a reused store record that lists all
\* three patterns.
C10_Witness ==
  /\ resp.present
  /\ resp.log.kind = "reused"
  /\ resp.body.intervals[1].patterns
       = <<"extremeReversal", "lateVolatility", "peacefulFinish">>
  /\ resp.body.intervals[1].patternPrimary = "extremeReversal"

\* C11: when the window's stored record is reused, the patterns, the primary
\* pattern and the side hits returned for the window are those of the record.
C11_ReusedRecordReturnedAsStored ==
  (resp.present /\ resp.log.kind = "reused") =>
    LET w == resp.body.intervals[1]
        record == resp.log.prev.record
    IN  /\ w.patterns = record.patterns
        /\ w.patternPrimary = record.patternPrimary
        /\ w.patternSideHits = record.patternSideHits
        /\ stores[resp.log.storePath].windows[record.windowId] = record

\* C11 witness: a reused record with hits on both sides, metrics included.
C11_Witness ==
  /\ resp.present /\ resp.log.kind = "reused"
  /\ \E n \in 1..Len(resp.body.intervals[1].patternSideHits["extremeReversal"]) :
       LET hit == resp.body.intervals[1].patternSideHits["extremeReversal"][n]
       IN  hit.side = "up" /\ hit.metrics = [max_price |-> 990, final_price |-> 5]
  /\ \E n \in 1..Len(resp.body.intervals[1].patternSideHits["peacefulFinish"]) :
       resp.body.intervals[1].patternSideHits["peacefulFinish"][n].side = "down"

\* ---------------------------------------------------------------------
\* SpecWrite: the processes that write one pattern store path, and a reader
\* ---------------------------------------------------------------------

\* the calls of writePatternStore the specification follows
MaxWrites == 3

\* process.pid of the servers that share the derived directory of one host
WriterPids == {101, 102}

\* the payloads handed to writePatternStore
WritePayloads == {"rowsThree", "rowsFour"}

\* JSON.stringify(payload, null, 2), as the pieces writeFileSync may write
\* one after the other
JsonText(payload) ==
  <<[doc |-> payload, part |-> "head"], [doc |-> payload, part |-> "tail"]>>

\* a path of the derived directory: filePath itself, or filePath with a suffix
PathOf(filePath, suffix) == [base |-> filePath, suffix |-> suffix]

StoreFile == PathOf(OwnStorePath(FALSE), <<>>)

\* a temporary path that leaves out process.pid
tmpPathShared(filePath, pid, now) == PathOf(filePath.base, <<".tmp", 0, now>>)

\* `${filePath}.tmp-${process.pid}-${Date.now()}`
tmpPath(filePath, pid, now) == PathOf(filePath.base, <<".tmp", pid, now>>)

WriterIdle == [pc |-> "idle", payload |-> "", tmp |-> StoreFile, fd |-> 0,
               pos |-> 0, count |-> 0]

NotReading == [pc |-> "idle", fd |-> 0, kind |-> "none", text |-> <<>>,
               parsed |-> NoStore]

RECURSIVE WriteCalls(_, _)
WriteCalls(ws, pids) ==
  IF pids = {} THEN 0
  ELSE LET p == CHOOSE x \in pids : TRUE
       IN  ws[p].count + WriteCalls(ws, pids \ {p})

\* the content of the file at a path
FileText(d, filePath) == d.inodes[d.names[filePath]]

\* JSON.parse of a file content, and the schema check of readPatternStore
ParseStore(text) ==
  IF \E payload \in WritePayloads : text = JsonText(payload)
  THEN [exists |-> TRUE, schemaVersion |-> PATTERN_STORE_SCHEMA_VERSION,
        doc |-> text[1].doc]
  ELSE NoStore

\* a write of one piece at an offset of a file
WriteAt(text, pos, piece) ==
  IF pos <= Len(text) THEN [text EXCEPT ![pos] = piece]
  ELSE IF pos = Len(text) + 1 THEN Append(text, piece)
  ELSE Append(Append(text, [doc |-> "", part |-> "hole"]), piece)

InitWrite ==
  /\ LaterIdle
  /\ \E initial \in {<<>>} \cup {JsonText(payload) : payload \in WritePayloads} :
       disk = IF initial = <<>>
              THEN [names |-> <<>>, inodes |-> <<>>, nowMs |-> 0]
              ELSE [names |-> [p \in {StoreFile} |-> 1], inodes |-> <<initial>>,
                    nowMs |-> 0]
  /\ writers = [pid \in WriterPids |-> WriterIdle]
  /\ lastRead = NotReading
  /\ renamed = <<>>
  /\ cacheLog = <<>>
  /\ JsonlIdle
  /\ AnalyzeIdle
  /\ SideIdle
  /\ WindowIdle
  /\ StoreIdle

\* fs.writeFileSync(tmpPath, ...): the file is opened for writing, created
\* or truncated
WriteOpen(pid) ==
  /\ writers[pid].pc = "idle"
  /\ WriteCalls(writers, WriterPids) < MaxWrites
  /\ \E payload \in WritePayloads, now \in {disk.nowMs, disk.nowMs + 1} :
       LET tmp == tmpPath(StoreFile, pid, now)
           isOld == tmp \in DOMAIN disk.names
           fd == IF isOld THEN disk.names[tmp] ELSE Len(disk.inodes) + 1
       IN  /\ disk' = [names |-> [p \in DOMAIN disk.names \cup {tmp} |->
                                    IF p = tmp THEN fd ELSE disk.names[p]],
                       inodes |-> IF isOld
                                  THEN [disk.inodes EXCEPT ![fd] = <<>>]
                                  ELSE Append(disk.inodes, <<>>),
                       nowMs |-> now]
           /\ writers' = [writers EXCEPT ![pid] =
                            [pc |-> "writing", payload |-> payload, tmp |-> tmp,
                             fd |-> fd, pos |-> 0, count |-> @.count + 1]]
  /\ UNCHANGED <<lastRead, renamed, cacheLog, jsonlVars, analyzeVars,
                 sideVars, winVars, storeVars,
                 laterVars>>

\* fs.writeFileSync(tmpPath, ...): the next piece of the text is written
WriteChunk(pid) ==
  LET w == writers[pid]
  IN  /\ w.pc = "writing"
      /\ w.pos < Len(JsonText(w.payload))
      /\ disk' = [disk EXCEPT !.inodes[w.fd] =
                    WriteAt(@, w.pos + 1, JsonText(w.payload)[w.pos + 1])]
      /\ writers' = [writers EXCEPT ![pid].pos = w.pos + 1]
      /\ UNCHANGED <<lastRead, renamed, cacheLog, jsonlVars, analyzeVars,
                     sideVars, winVars, storeVars,
                 laterVars>>

\* fs.renameSync(tmpPath, filePath); it throws when tmpPath is gone
WriteRename(pid) ==
  LET w == writers[pid]
  IN  /\ w.pc = "writing"
      /\ w.pos = Len(JsonText(w.payload))
      /\ writers' = [writers EXCEPT ![pid] =
                       [WriterIdle EXCEPT !.count = w.count]]
      /\ IF w.tmp \in DOMAIN disk.names
         THEN /\ disk' = [disk EXCEPT !.names =
                            [p \in (DOMAIN disk.names \cup {StoreFile}) \ {w.tmp} |->
                               IF p = StoreFile THEN disk.names[w.tmp]
                               ELSE disk.names[p]]]
              /\ renamed' = Append(renamed, w.payload)
         ELSE UNCHANGED <<disk, renamed>>
      /\ UNCHANGED <<lastRead, cacheLog, jsonlVars, analyzeVars,
                     sideVars, winVars, storeVars,
                 laterVars>>

\* readPatternStore: fs.existsSync(filePath)
ReadExists ==
  /\ lastRead.pc = "idle"
  /\ lastRead' = IF StoreFile \in DOMAIN disk.names
                 THEN [NotReading EXCEPT !.pc = "checked"]
                 ELSE [NotReading EXCEPT !.kind = "absent"]
  /\ UNCHANGED <<disk, writers, renamed, cacheLog, jsonlVars, analyzeVars,
                 sideVars, winVars, storeVars,
                 laterVars>>

\* readPatternStore: fs.readFileSync opens the file
ReadOpen ==
  /\ lastRead.pc = "checked"
  /\ lastRead' = IF StoreFile \in DOMAIN disk.names
                 THEN [NotReading EXCEPT !.pc = "open",
                                         !.fd = disk.names[StoreFile]]
                 ELSE [NotReading EXCEPT !.kind = "absent"]
  /\ UNCHANGED <<disk, writers, renamed, cacheLog, jsonlVars, analyzeVars,
                 sideVars, winVars, storeVars,
                 laterVars>>

\* readPatternStore: fs.readFileSync reads the file, JSON.parse, schema check
ReadAll ==
  /\ lastRead.pc = "open"
  /\ lastRead' = [pc |-> "idle", fd |-> lastRead.fd, kind |-> "read",
                  text |-> disk.inodes[lastRead.fd],
                  parsed |-> ParseStore(disk.inodes[lastRead.fd])]
  /\ UNCHANGED <<disk, writers, renamed, cacheLog, jsonlVars, analyzeVars,
                 sideVars, winVars, storeVars,
                 laterVars>>

NextWrite ==
  \/ \E pid \in WriterPids : WriteOpen(pid)
  \/ \E pid \in WriterPids : WriteChunk(pid)
  \/ \E pid \in WriterPids : WriteRename(pid)
  \/ ReadExists
  \/ ReadOpen
  \/ ReadAll

SpecWrite == InitWrite /\ [][NextWrite]_vars

CompleteDocument(text) == \E payload \in WritePayloads : text = JsonText(payload)

WritersFinished == \A pid \in WriterPids : writers[pid].pc = "idle"

\* C12: under every interleaving of the writers and the reader of one store
\* path, the path is absent or holds the complete text of one payload, a read
\* returns a complete text, and after a rename the path holds the payload of
\* the writer that renamed last (so also once all writers have finished)
C12_AtomicStoreWrite ==
  /\ StoreFile \in DOMAIN disk.names =>
       /\ CompleteDocument(FileText(disk, StoreFile))
       /\ renamed # <<>> =>
            FileText(disk, StoreFile) = JsonText(renamed[Len(renamed)])
  /\ renamed # <<>> => StoreFile \in DOMAIN disk.names
  /\ lastRead.kind = "read" =>
       /\ CompleteDocument(lastRead.text)
       /\ lastRead.parsed.exists

\* two writers of the same millisecond, one renamed and one half-way through
\* its text, and a read that returned the payload renamed first
C12_Witness ==
  \E p \in WriterPids, q \in WriterPids :
    /\ p # q
    /\ Len(renamed) = 1
    /\ writers[p].pc = "writing"
    /\ writers[p].pos = 1
    /\ writers[p].payload # renamed[1]
    /\ writers[q].count = 1
    /\ writers[q].pc = "idle"
    /\ writers[p].tmp.suffix[3] = disk.nowMs
    /\ disk.nowMs = 0
    /\ lastRead.kind = "read"
    /\ lastRead.text = JsonText(renamed[1])

\* both writers have finished after renaming different payloads
C12_WitnessLastWriter ==
  /\ WritersFinished
  /\ Len(renamed) = 2
  /\ renamed[1] # renamed[2]
  /\ FileText(disk, StoreFile) = JsonText(renamed[2])

\* ---------------------------------------------------------------------
\* SpecCache: the calls of buildPatternIndexForDate, as PATTERN_CACHE sees them
\* ---------------------------------------------------------------------

\* the calls of buildPatternIndexForDate the specification follows
MaxCacheCalls == 36

\* the cache key of the n-th date queried
DateCacheKey(n) ==
  PatternCacheKey(n, FALSE, ConfigHash(normalizePatternConfig(ConfigFile)), <<>>)

\* the index of a date without intervals
EmptyIndexValue == IndexValue(<<>>, <<>>, FALSE)

CacheKeys(cache) == {cache[i].key : i \in 1..Len(cache)}

\* the keys a call may set: a date not queried before, the first or the last
\* key of the cache (a second call that missed the cache before the first
\* one set it), or a key removed by the latest eviction
CacheKeyChoices ==
  {DateCacheKey(cacheLog.dates + 1)}
    \cup (IF patternCache = <<>> THEN {}
          ELSE {patternCache[1].key, patternCache[Len(patternCache)].key})
    \cup {r.key : r \in cacheLog.removed}

InitCache ==
  /\ LaterIdle
  /\ patternCache = <<>>
  /\ nQueries = 0
  /\ cacheLog = [at |-> <<>>, removed |-> {}, dates |-> 0, inserts |-> 0]
  /\ updRows = 0
  /\ cfgFile = ConfigFile
  /\ cfgCache = InitialConfigCache
  /\ stores = NoStores
  /\ call = Idle
  /\ resp = [present |-> FALSE]
  /\ WriteIdle
  /\ JsonlIdle
  /\ AnalyzeIdle
  /\ SideIdle
  /\ WindowIdle

\* buildPatternIndexForDate, the end of a call that missed the cache:
\* PATTERN_CACHE.set(cacheKey, value); evictPatternCacheIfNeeded()
CacheInsert(key) ==
  /\ nQueries < MaxCacheCalls
  /\ LET afterSet == CacheSet(patternCache, key, EmptyIndexValue)
         next == evictPatternCacheIfNeeded(afterSet, PatternCacheMaxSize)
         isNew == key \notin CacheKeys(patternCache)
         at == [k \in CacheKeys(afterSet) |->
                  IF k = key /\ isNew THEN cacheLog.inserts + 1 ELSE cacheLog.at[k]]
     IN  /\ patternCache' = next
         /\ cacheLog' =
              [at |-> [k \in CacheKeys(next) |-> at[k]],
               removed |-> {[key |-> k, at |-> at[k]] :
                              k \in CacheKeys(afterSet) \ CacheKeys(next)},
               dates |-> IF key = DateCacheKey(cacheLog.dates + 1)
                         THEN cacheLog.dates + 1 ELSE cacheLog.dates,
               inserts |-> IF isNew THEN cacheLog.inserts + 1
                           ELSE cacheLog.inserts]
  /\ nQueries' = nQueries + 1
  /\ UNCHANGED <<updRows, cfgFile, cfgCache, stores, call, resp,
                 writeVars, jsonlVars, analyzeVars, sideVars, winVars,
                 laterVars>>

\* buildPatternIndexForDate, a call that finds its key: if (cached) return cached
CacheHit(key) ==
  /\ nQueries < MaxCacheCalls
  /\ CacheIndex(patternCache, key) > 0
  /\ nQueries' = nQueries + 1
  /\ cacheLog' = [cacheLog EXCEPT !.removed = {}]
  /\ UNCHANGED <<patternCache, updRows, cfgFile, cfgCache, stores, call, resp,
                 writeVars, jsonlVars, analyzeVars, sideVars, winVars,
                 laterVars>>

NextCache ==
  \/ \E key \in CacheKeyChoices : CacheInsert(key)
  \/ \E key \in CacheKeyChoices : CacheHit(key)

SpecCache == InitCache /\ [][NextCache]_vars

\* C13: after every completed call the cache holds at most 32 entries, and
\* the entries the call removed were set for the first time before every
\* entry that stays, no more of them than the cap requires
C13_CacheBoundedOldestFirst ==
  /\ Len(patternCache) <= PatternCacheMaxSize
  /\ \A r \in cacheLog.removed :
       /\ Len(patternCache) = PatternCacheMaxSize
       /\ \A k \in CacheKeys(patternCache) : r.at < cacheLog.at[k]

\* the call for the 34th date removed the second date; the first date had
\* gone before
C13_Witness ==
  /\ cacheLog.dates = PatternCacheMaxSize + 2
  /\ cacheLog.removed # {}
  /\ \A r \in cacheLog.removed : r.key = DateCacheKey(2)
  /\ Len(patternCache) = PatternCacheMaxSize

\* ---------------------------------------------------------------------
\* SpecJsonl: eachJsonl of the statistics script reads one file
\* ---------------------------------------------------------------------

\* the lines of the file
MaxJsonlLines == 3

\* a line of a .jsonl file: empty, white space only, text JSON.parse
\* rejects, or the JSON text of a value (an object, or null)
JsonlLine(kind, value) == [kind |-> kind, value |-> value]

\* the JSON value null
JsonNull == [null |-> TRUE]

JsonlLineChoices ==
  { JsonlLine("empty", JsonNull), JsonlLine("spaces", JsonNull),
    JsonlLine("bad", JsonNull),
    JsonlLine("json", Row("up", 0, 990)), JsonlLine("json", JsonNull) }

RECURSIVE JsonlFiles(_)
JsonlFiles(n) ==
  IF n = 0 THEN {<<>>}
  ELSE LET shorter == JsonlFiles(n - 1)
       IN  shorter \cup {Append(f, l) : f \in {g \in shorter : Len(g) = n - 1},
                                        l \in JsonlLineChoices}

\* !line || !line.trim()
IsBlankLine(line) == line.kind \in {"empty", "spaces"}

\* JSON.parse(line) throws
IsBadLine(line) == line.kind = "bad"

\* createWarningTracker().counts
NoWarnings == [missing_file |-> 0, bad_json_line |-> 0]

\* warnings.add(code, message)
WarningsAdd(w, code) == [w EXCEPT ![code] = @ + 1]

\* a loop body that tests the line without trim()
eachJsonlLineNoTrim(acc, line) ==
  IF line.kind = "empty" THEN acc
  ELSE IF line.kind # "json"
       THEN [acc EXCEPT !.warnings = WarningsAdd(@, "bad_json_line")]
       ELSE [acc EXCEPT !.rows = Append(@, line.value)]

\* the body of the for-await loop of eachJsonl, on the warnings and the rows
\* handed to onRow so far
eachJsonlLine(acc, line) ==
  IF IsBlankLine(line) THEN acc
  ELSE IF IsBadLine(line)
       THEN [acc EXCEPT !.warnings = WarningsAdd(@, "bad_json_line")]
       ELSE [acc EXCEPT !.rows = Append(@, line.value)]

InitJsonl ==
  /\ LaterIdle
  /\ \E exists \in BOOLEAN, lines \in JsonlFiles(MaxJsonlLines) :
       /\ (~exists) => lines = <<>>
       /\ jsonl = [exists |-> exists, lines |-> lines, lineNo |-> 0,
                   done |-> FALSE]
  /\ warnings = NoWarnings
  /\ rowsSeen = <<>>
  /\ cacheLog = <<>>
  /\ WriteIdle
  /\ AnalyzeIdle
  /\ SideIdle
  /\ WindowIdle
  /\ StoreIdle

\* if (!fs.existsSync(filePath)) { warnings.add("missing_file", ...); return; }
JsonlMissing ==
  /\ ~jsonl.done
  /\ ~jsonl.exists
  /\ warnings' = WarningsAdd(warnings, "missing_file")
  /\ jsonl' = [jsonl EXCEPT !.done = TRUE]
  /\ UNCHANGED <<rowsSeen, cacheLog, writeVars, analyzeVars,
                 sideVars, winVars, storeVars,
                 laterVars>>

\* one turn of for await (const line of rl)
JsonlRead ==
  /\ ~jsonl.done
  /\ jsonl.exists
  /\ jsonl.lineNo < Len(jsonl.lines)
  /\ LET acc == eachJsonlLine([warnings |-> warnings, rows |-> rowsSeen],
                              jsonl.lines[jsonl.lineNo + 1])
     IN  /\ warnings' = acc.warnings
         /\ rowsSeen' = acc.rows
  /\ jsonl' = [jsonl EXCEPT !.lineNo = @ + 1]
  /\ UNCHANGED <<cacheLog, writeVars, analyzeVars, sideVars, winVars, storeVars,
                 laterVars>>

\* the end of the file: the loop ends and eachJsonl returns
JsonlEnd ==
  /\ ~jsonl.done
  /\ jsonl.exists
  /\ jsonl.lineNo = Len(jsonl.lines)
  /\ jsonl' = [jsonl EXCEPT !.done = TRUE]
  /\ UNCHANGED <<warnings, rowsSeen, cacheLog, writeVars, analyzeVars,
                 sideVars, winVars, storeVars,
                 laterVars>>

NextJsonl ==
  \/ JsonlMissing
  \/ JsonlRead
  \/ JsonlEnd

SpecJsonl == InitJsonl /\ [][NextJsonl]_vars

IsJsonLine(line) == ~IsBlankLine(line) /\ ~IsBadLine(line)

IsNotBadLine(line) == ~IsBadLine(line)

\* the values of the lines that are neither blank nor malformed, in file order
SpecRows(lines) ==
  LET good == SelectSeq(lines, IsJsonLine)
  IN  [i \in 1..Len(good) |-> good[i].value]

\* C15: eachJsonl counts one bad_json_line per malformed line, hands every
\* other non-blank line to the callback once and in file order, and reads on
\* to the end of the file; the rows are those of the file without its
\* malformed lines
C15_MalformedLinesSkipped ==
  jsonl.exists =>
    LET read == SubSeq(jsonl.lines, 1, jsonl.lineNo)
    IN  /\ warnings.bad_json_line = Len(SelectSeq(read, IsBadLine))
        /\ warnings.missing_file = 0
        /\ rowsSeen = SpecRows(read)
        /\ rowsSeen = SpecRows(SelectSeq(read, IsNotBadLine))
        /\ jsonl.done => jsonl.lineNo = Len(jsonl.lines)

\* a scan that has ended after a malformed line followed by a row, with a
\* line of white space in the file
C15_Witness ==
  /\ jsonl.exists
  /\ jsonl.done
  /\ \E i \in 1..Len(jsonl.lines) - 1 :
       /\ IsBadLine(jsonl.lines[i])
       /\ IsJsonLine(jsonl.lines[i + 1])
  /\ \E i \in 1..Len(jsonl.lines) : jsonl.lines[i].kind = "spaces"
  /\ rowsSeen # <<>>

\* ---------------------------------------------------------------------
\* SpecAnalyze: analyzeWindows applied to the windows of a date, in every
\* order a loader may supply them
\* ---------------------------------------------------------------------

\* the windows supplied to one call
MaxAnalyzeWindows == 2

\* the start of the window a directory name stands for
DirStartMs(windowId) == (SlugRank(windowId) - 1) * FIVE_MIN_MS

\* a series given by offsets from the start of its window
ShiftSeries(series, startMs) ==
  [i \in 1..Len(series) |-> Pt(series[i].ts + startMs, series[i].price)]

\* side series, as offsets: none; a high series from the first millisecond
\* of the window that drops in the last minute; one high point on the last
\* millisecond of the window; one point past the end of the window; the
\* last high point between two points outside the window
AnalyzeSeries ==
  [none |-> <<>>,
   drop |-> <<Pt(300000, 990), Pt(539999, 990), Pt(540000, 5)>>,
   late |-> <<Pt(600000, 990)>>,
   outside |-> <<Pt(600001, 5)>>,
   lateAndOutside |-> <<Pt(299999, 5), Pt(600000, 990), Pt(600001, 5)>>]

\* the up and the down series of a window directory
AnalyzeSidePairs ==
  { <<"drop", "late">>, <<"drop", "none">>, <<"outside", "lateAndOutside">>,
    <<"late", "outside">>, <<"none", "outside">> }

\* the window loadPartitionedWindows builds from a directory: the name gives
\* the start, the rows the market slug and the points
LoadedWindow(windowId, marketSlug, pair) ==
  LET startMs == DirStartMs(windowId)
      from == startMs - FIVE_MIN_MS
  IN  finalizeWindow(
        [newWindow(WindowDate, windowId, marketSlug, MarketMeta(startMs)) EXCEPT
           !.sidePoints = [up |-> ShiftSeries(AnalyzeSeries[pair[1]], from),
                           down |-> ShiftSeries(AnalyzeSeries[pair[2]], from)],
           !.btcPoints = <<Pt(startMs, 1), Pt(startMs + COMPLETE_MIN_MS, 1)>>])

\* directory names and the market slugs of their rows: two directories of
\* their own slug, and the first directory with rows of the other slug
AnalyzeDirSlugs == { <<1, 1>>, <<1, 2>>, <<2, 2>> }

AnalyzeWindowChoices ==
  { LoadedWindow(SlugOrder[ds[1]], SlugOrder[ds[2]], pair) :
      ds \in AnalyzeDirSlugs, pair \in AnalyzeSidePairs }

AnalyzeRawConfigs ==
  { RawConfig(<<TRUE, TRUE, TRUE>>, WinDefaults),
    RawConfig(<<TRUE, FALSE, TRUE>>, WinLoosePeaceful) }

NotAnalysed == [done |-> FALSE]

InitAnalyze ==
  /\ LaterIdle
  /\ windowsIn = <<>>
  /\ analysisOut = NotAnalysed
  /\ cacheLog = <<>>
  /\ WriteIdle
  /\ JsonlIdle
  /\ SideIdle
  /\ WindowIdle
  /\ StoreIdle

\* the loader pushes the next window: windows.push(window)
AnalyzeSupply ==
  /\ ~analysisOut.done
  /\ Len(windowsIn) < MaxAnalyzeWindows
  /\ \E window \in AnalyzeWindowChoices : windowsIn' = Append(windowsIn, window)
  /\ UNCHANGED <<analysisOut, cacheLog, writeVars, jsonlVars,
                 sideVars, winVars, storeVars,
                 laterVars>>

\* analyzeWindows(windows, includeIncomplete, counters, patternConfig)
AnalyzeRun ==
  /\ ~analysisOut.done
  /\ \E includeIncomplete \in BOOLEAN, raw \in AnalyzeRawConfigs :
       analysisOut' = [done |-> TRUE,
                       includeIncomplete |-> includeIncomplete,
                       result |-> analyzeWindows(windowsIn, includeIncomplete, raw)]
  /\ UNCHANGED <<windowsIn, cacheLog, writeVars, jsonlVars,
                 sideVars, winVars, storeVars,
                 laterVars>>

NextAnalyze ==
  \/ AnalyzeSupply
  \/ AnalyzeRun

SpecAnalyze == InitAnalyze /\ [][NextAnalyze]_vars

\* the positions of the supplied windows the call evaluates
EvaluatedWindows ==
  {i \in 1..Len(windowsIn) :
     analysisOut.includeIncomplete \/ windowsIn[i].isComplete}

\* the evaluation of one side of a supplied window
SideOf(i, side) ==
  evaluateSidePatterns(windowsIn[i].sidePoints[side], windowsIn[i].startMs,
                       windowsIn[i].endMs, analysisOut.result.patternConfig)

\* the side of the window hits the pattern
SideHits(i, side, id) ==
  /\ analysisOut.result.patternConfig.patterns[id].enabled
  /\ SideOf(i, side).hasData
  /\ SideOf(i, side).hits[id]

\* the (window, side) pairs of the evaluated windows that hit the pattern
HitPairs(id) ==
  {pr \in EvaluatedWindows \X {"up", "down"} : SideHits(pr[1], pr[2], id)}

HitOf(pr, id) ==
  PatternHit(windowsIn[pr[1]], pr[2], SideOf(pr[1], pr[2]).metricsByPattern[id])

\* C16: for every pattern the window count is the number of evaluated
\* windows with a hit on at least one side, the hit list holds exactly one
\* entry for every (window, side) hit, and count <= hits <= 2 * count
C16_CountsAndHits ==
  analysisOut.done =>
    \A id \in PatternIds :
      LET hits == analysisOut.result.hits[id]
          count == analysisOut.result.counts[id]
      IN  /\ count = Cardinality({pr[1] : pr \in HitPairs(id)})
          /\ Len(hits) = Cardinality(HitPairs(id))
          /\ \A pr \in HitPairs(id) :
               Cardinality({k \in 1..Len(hits) : hits[k] = HitOf(pr, id)})
                 = Cardinality({qr \in HitPairs(id) : HitOf(qr, id) = HitOf(pr, id)})
          /\ count <= Len(hits)
          /\ Len(hits) <= 2 * count

\* a pattern hit by both sides of one window and by one side of the other
C16_Witness ==
  /\ analysisOut.done
  /\ \E id \in PatternIds :
       /\ analysisOut.result.counts[id] = 2
       /\ Len(analysisOut.result.hits[id]) = 3

\* a hit comes before another in (window_start_ms, market_slug, side)
HitKeyBefore(a, b) ==
  \/ a.window_start_ms < b.window_start_ms
  \/ /\ a.window_start_ms = b.window_start_ms
     /\ SlugRank(a.market_slug) < SlugRank(b.market_slug)
  \/ /\ a.window_start_ms = b.window_start_ms
     /\ a.market_slug = b.market_slug
     /\ SideRank(a.side) < SideRank(b.side)

\* C17: every hit list analyzeWindows returns is in ascending order of
\* (window_start_ms, market_slug, side), in whatever order the windows
\* were supplied
C17_HitsSorted ==
  analysisOut.done =>
    \A id \in PatternIds :
      LET hits == analysisOut.result.hits[id]
      IN  \A k \in 1..Len(hits) - 1 : ~HitKeyBefore(hits[k + 1], hits[k])

\* the later window was supplied first, and a list holds hits of both
\* windows and of both sides
C17_Witness ==
  /\ analysisOut.done
  /\ Len(windowsIn) = 2
  /\ windowsIn[1].startMs > windowsIn[2].startMs
  /\ \E id \in PatternIds :
       LET hits == analysisOut.result.hits[id]
       IN  /\ Len(hits) >= 3
           /\ hits[1].window_start_ms = windowsIn[2].startMs
           /\ hits[1].side = "down"
           /\ hits[2].side = "up"

\* the points of a side of a supplied window inside [startMs, endMs]
PointsInWindow(i, side) ==
  LET Inside(p) == p.ts >= windowsIn[i].startMs /\ p.ts <= windowsIn[i].endMs
  IN  SelectSeq(windowsIn[i].sidePoints[side], Inside)

\* the supplied windows without the points outside their bounds
WindowsInsideOnly ==
  [i \in 1..Len(windowsIn) |->
     [windowsIn[i] EXCEPT !.sidePoints =
        [side \in {"up", "down"} |-> PointsInWindow(i, side)]]]

\* the entries of a hit list that carry the identifiers of a window and a side
EntriesOf(hits, window, side) ==
  {k \in 1..Len(hits) :
     /\ hits[k].window_id = window.windowId
     /\ hits[k].market_slug = window.marketSlug
     /\ hits[k].side = side}

\* C18: a side without a point inside [windowStart, windowEnd] evaluates to
\* hasData false with no pattern hit, adds no entry to a hit list and does
\* not make its window count; the points outside the bounds change no hit,
\* no metric and no count
C18_OutsidePointsIgnored ==
  analysisOut.done =>
    LET result == analysisOut.result
        config == result.patternConfig
        inside == analyzeWindows(WindowsInsideOnly, analysisOut.includeIncomplete,
                                 config)
    IN  /\ \A i \in 1..Len(windowsIn), side \in {"up", "down"} :
             /\ PointsInWindow(i, side) = <<>> =>
                  /\ ~SideOf(i, side).hasData
                  /\ \A id \in PatternIds : ~SideOf(i, side).hits[id]
             /\ SideOf(i, side) =
                  evaluateSidePatterns(PointsInWindow(i, side), windowsIn[i].startMs,
                                       windowsIn[i].endMs, config)
        /\ \A id \in PatternIds :
             /\ result.hits[id] = inside.hits[id]
             /\ result.counts[id] = inside.counts[id]
             /\ result.counts[id] <=
                  Cardinality({i \in EvaluatedWindows :
                                 \E side \in {"up", "down"} :
                                   PointsInWindow(i, side) # <<>>})
             /\ \A i \in 1..Len(windowsIn), side \in {"up", "down"} :
                  Cardinality(EntriesOf(result.hits[id], windowsIn[i], side)) <=
                    Cardinality({j \in EvaluatedWindows :
                                   /\ windowsIn[j].windowId = windowsIn[i].windowId
                                   /\ windowsIn[j].marketSlug = windowsIn[i].marketSlug
                                   /\ PointsInWindow(j, side) # <<>>})

\* an evaluated window whose up side has only a point past the end and
\* whose down side hits with points before, inside and after the window,
\* next to a window without any point inside
C18_Witness ==
  /\ analysisOut.done
  /\ Len(windowsIn) = 2
  /\ windowsIn[1].sidePoints.up # <<>>
  /\ PointsInWindow(1, "up") = <<>>
  /\ Len(PointsInWindow(1, "down")) < Len(windowsIn[1].sidePoints.down)
  /\ \E id \in PatternIds : SideHits(1, "down", id)
  /\ 2 \in EvaluatedWindows
  /\ PointsInWindow(2, "up") = <<>>
  /\ PointsInWindow(2, "down") = <<>>
  /\ windowsIn[2].sidePoints.down # <<>>
  /\ \E id \in PatternIds : analysisOut.result.counts[id] = 1

\* ---------------------------------------------------------------------
\* SpecStringify: stableStringify and the content hash of two objects
\* ---------------------------------------------------------------------

\* JavaScript values: a number [num], a boolean [bool], a string [str], an
\* array [arr], an object [obj] with its properties in insertion order
JsNum(n) == [num |-> n]

JsBool(b) == [bool |-> b]

JsStr(x) == [str |-> x]

JsProp(k, v) == [k |-> k, v |-> v]

JsObj(props) == [obj |-> props]

\* the property names of a pattern entry, in the order of Array.prototype.sort
\* (UTF-16 code units)
KeyOrder ==
  <<"enabled", "finalPriceThreshold", "maxDrawdownAbsThreshold", "params">>

KeyRank(k) == CHOOSE i \in 1..Len(KeyOrder) : KeyOrder[i] = k

RECURSIVE InsertProp(_, _)
InsertProp(sorted, p) ==
  IF sorted = <<>> THEN <<p>>
  ELSE IF KeyRank(sorted[Len(sorted)].k) <= KeyRank(p.k) THEN Append(sorted, p)
  ELSE Append(InsertProp(SubSeq(sorted, 1, Len(sorted) - 1), p), sorted[Len(sorted)])

RECURSIVE SortProps(_)
\* Object.keys(value).sort(), with the values of the keys
SortProps(props) ==
  IF props = <<>> THEN <<>>
  ELSE InsertProp(SortProps(SubSeq(props, 1, Len(props) - 1)), props[Len(props)])

\* a piece of the text: a punctuation mark, or JSON.stringify of a primitive
Mark(c) == [ch |-> c]

RECURSIVE stableStringifyUnsorted(_)
RECURSIVE JoinPropsUnsorted(_, _)
\* a serialization that takes the keys as Object.keys returns them
JoinPropsUnsorted(props, i) ==
  IF i > Len(props) THEN <<>>
  ELSE (IF i > 1 THEN <<Mark(",")>> ELSE <<>>)
         \o <<JsStr(props[i].k), Mark(":")>> \o stableStringifyUnsorted(props[i].v)
         \o JoinPropsUnsorted(props, i + 1)

stableStringifyUnsorted(value) ==
  IF "obj" \in DOMAIN value
  THEN <<Mark("{")>> \o JoinPropsUnsorted(value.obj, 1) \o <<Mark("}")>>
  ELSE <<value>>

RECURSIVE stableStringify(_)
RECURSIVE JoinItems(_, _)
RECURSIVE JoinProps(_, _)
\* value.map((x) => stableStringify(x)).join(",")
JoinItems(items, i) ==
  IF i > Len(items) THEN <<>>
  ELSE (IF i > 1 THEN <<Mark(",")>> ELSE <<>>)
         \o stableStringify(items[i]) \o JoinItems(items, i + 1)

\* keys.map((k) => `${JSON.stringify(k)}:${stableStringify(value[k])}`).join(",")
JoinProps(props, i) ==
  IF i > Len(props) THEN <<>>
  ELSE (IF i > 1 THEN <<Mark(",")>> ELSE <<>>)
         \o <<JsStr(props[i].k), Mark(":")>> \o stableStringify(props[i].v)
         \o JoinProps(props, i + 1)

\* stableStringify(value): the text as the sequence of its pieces
stableStringify(value) ==
  IF "arr" \in DOMAIN value
  THEN <<Mark("[")>> \o JoinItems(value.arr, 1) \o <<Mark("]")>>
  ELSE IF "obj" \in DOMAIN value
       THEN <<Mark("{")>> \o JoinProps(SortProps(value.obj), 1) \o <<Mark("}")>>
       ELSE <<value>>

\* the two orders of two properties
BothOrders(p, q) == { <<p, q>>, <<q, p>> }

\* threshold values a configuration file can hold for peacefulFinish
ThresholdValues == { JsNum(990), JsNum(300), JsStr("990") }

\* the peacefulFinish entry of a configuration as JSON.parse returns it: the
\* same content comes with its keys in either order, on both levels
PatternEntries ==
  UNION { { JsObj(outer) :
              outer \in UNION { BothOrders(JsProp("enabled", JsBool(en)),
                                           JsProp("params", JsObj(inner))) :
                                  inner \in BothOrders(JsProp("finalPriceThreshold", x),
                                                       JsProp("maxDrawdownAbsThreshold", y)) } } :
          en \in BOOLEAN, x \in ThresholdValues, y \in {JsNum(100), JsNum(1000)} }

NotCalled == [done |-> FALSE]

InitStringify ==
  /\ \E a \in PatternEntries, b \in PatternEntries : fnIn = [a |-> a, b |-> b]
  /\ fnOut = NotCalled
  /\ coll = <<>>
  /\ updownFiles = <<>>
  /\ cacheLog = <<>>
  /\ WriteIdle
  /\ JsonlIdle
  /\ AnalyzeIdle
  /\ SideIdle
  /\ WindowIdle
  /\ StoreIdle

\* crypto.createHash("sha256").update(stableStringify(config)).digest("hex")
\* of both objects
StringifyBoth ==
  /\ ~fnOut.done
  /\ fnOut' = [done |-> TRUE,
               textA |-> stableStringify(fnIn.a),
               textB |-> stableStringify(fnIn.b),
               hashA |-> ConfigHash(stableStringify(fnIn.a)),
               hashB |-> ConfigHash(stableStringify(fnIn.b))]
  /\ UNCHANGED <<fnIn, coll, updownFiles, cacheLog, writeVars, jsonlVars,
                 analyzeVars, sideVars, winVars, storeVars>>

NextStringify == StringifyBoth

SpecStringify == InitStringify /\ [][NextStringify]_vars

RECURSIVE JsContent(_)
\* what an object holds, whatever the order of its keys
JsContent(value) ==
  IF "obj" \in DOMAIN value
  THEN [map |-> {[k |-> value.obj[i].k, v |-> JsContent(value.obj[i].v)] :
                   i \in 1..Len(value.obj)}]
  ELSE value

\* C21: two configuration objects of the same content have the same
\* serialization and the same hash whatever the insertion order of their
\* keys, and two objects that differ in a value have different serializations
C21_SerializationCanonical ==
  fnOut.done =>
    /\ JsContent(fnIn.a) = JsContent(fnIn.b) =>
         /\ fnOut.textA = fnOut.textB
         /\ fnOut.hashA = fnOut.hashB
    /\ JsContent(fnIn.a) # JsContent(fnIn.b) => fnOut.textA # fnOut.textB

\* the same content with the keys of both levels in opposite orders
C21_Witness ==
  /\ fnOut.done
  /\ JsContent(fnIn.a) = JsContent(fnIn.b)
  /\ fnIn.a.obj[1].k # fnIn.b.obj[1].k
  /\ \E i \in 1..2, j \in 1..2 :
       /\ fnIn.a.obj[i].k = "params"
       /\ fnIn.b.obj[j].k = "params"
       /\ fnIn.a.obj[i].v.obj[1].k # fnIn.b.obj[j].v.obj[1].k
  /\ fnOut.textA = fnOut.textB

\* two objects that differ in one threshold, a number against the string of
\* its digits
C21_WitnessDifferent ==
  /\ fnOut.done
  /\ fnOut.textA # fnOut.textB
  /\ Len(fnOut.textA) = Len(fnOut.textB)
  /\ Cardinality({i \in 1..Len(fnOut.textA) : fnOut.textA[i] # fnOut.textB[i]}) = 1

\* ---------------------------------------------------------------------
\* SpecPrice: toPrice applied to the rows the collector writes
\* ---------------------------------------------------------------------

\* eps = 1e-9 of toPrice; the prices of this specification are in units of
\* half of it
TO_PRICE_EPS == 2

\* toFiniteNumber(x) of a field of a parsed row: the number, or null
toFiniteNumber(x) == IF "num" \in DOMAIN x THEN x.num ELSE NULL

\* a field of a row: value ?? null, as JSON.parse returns it
JsField(n) == IF n = NULL THEN JsonNull ELSE JsNum(n)

\* buildStateFromPayload: mid is set from the merged best bid and best ask
CollectorMid(bestBid, bestAsk) ==
  IF bestBid # NULL /\ bestAsk # NULL THEN (bestBid + bestAsk) \div 2 ELSE NULL

\* the price fields of the updown_state row writeUpdownSnapshot writes for a
\* state of the stream
UpdownPriceRow(bestBid, bestAsk, lastTradePrice) ==
  [best_bid |-> JsField(bestBid),
   best_ask |-> JsField(bestAsk),
   mid |-> JsField(CollectorMid(bestBid, bestAsk)),
   last_trade_price |-> JsField(lastTradePrice)]

\* best bid and best ask of a state: absent, or one of two prices (the book
\* may be crossed)
BookPrices == {NULL, 10, 20}

\* last trade prices: absent, and prices on both sides of each end of the
\* band [min - eps, max + eps] of every book
TradePrices == {NULL, 7, 8, 10, 15, 17, 18, 20, 22, 23}

\* a toPrice that compares with the bare best bid and best ask
toPriceNoEps(row) ==
  LET lastTradePrice == toFiniteNumber(row.last_trade_price)
      mid == toFiniteNumber(row.mid)
      bestBid == toFiniteNumber(row.best_bid)
      bestAsk == toFiniteNumber(row.best_ask)
  IN  IF lastTradePrice # NULL
      THEN IF bestBid # NULL /\ bestAsk # NULL
           THEN IF lastTradePrice >= Min2(bestBid, bestAsk)
                   /\ lastTradePrice <= Max2(bestBid, bestAsk)
                THEN lastTradePrice
                ELSE mid
           ELSE lastTradePrice
      ELSE mid

toPrice(row) ==
  LET lastTradePrice == toFiniteNumber(row.last_trade_price)
      mid == toFiniteNumber(row.mid)
      bestBid == toFiniteNumber(row.best_bid)
      bestAsk == toFiniteNumber(row.best_ask)
      eps == TO_PRICE_EPS
  IN  IF lastTradePrice # NULL
      THEN IF bestBid # NULL /\ bestAsk # NULL
           THEN LET low == Min2(bestBid, bestAsk) - eps
                    high == Max2(bestBid, bestAsk) + eps
                IN  IF lastTradePrice >= low /\ lastTradePrice <= high
                    THEN lastTradePrice
                    ELSE mid
           ELSE lastTradePrice
      ELSE mid

InitPrice ==
  /\ \E bestBid \in BookPrices, bestAsk \in BookPrices, lastTradePrice \in TradePrices :
       fnIn = [bestBid |-> bestBid, bestAsk |-> bestAsk,
               lastTradePrice |-> lastTradePrice,
               row |-> UpdownPriceRow(bestBid, bestAsk, lastTradePrice)]
  /\ fnOut = NotCalled
  /\ coll = <<>>
  /\ updownFiles = <<>>
  /\ cacheLog = <<>>
  /\ WriteIdle
  /\ JsonlIdle
  /\ AnalyzeIdle
  /\ SideIdle
  /\ WindowIdle
  /\ StoreIdle

\* const price = toPrice(row)
PriceOfRow ==
  /\ ~fnOut.done
  /\ fnOut' = [done |-> TRUE, price |-> toPrice(fnIn.row)]
  /\ UNCHANGED <<fnIn, coll, updownFiles, cacheLog, writeVars, jsonlVars,
                 analyzeVars, sideVars, winVars, storeVars>>

NextPrice == PriceOfRow

SpecPrice == InitPrice /\ [][NextPrice]_vars

HasBook == fnIn.bestBid # NULL /\ fnIn.bestAsk # NULL

\* the last trade price lies in [min(bid, ask) - eps, max(bid, ask) + eps]
LastInBand ==
  /\ fnIn.lastTradePrice >= Min2(fnIn.bestBid, fnIn.bestAsk) - TO_PRICE_EPS
  /\ fnIn.lastTradePrice <= Max2(fnIn.bestBid, fnIn.bestAsk) + TO_PRICE_EPS

\* C22: toPrice returns the last trade price when it is finite and within
\* the band around best bid and best ask; the midpoint of best bid and best
\* ask when both are finite and the last trade price is absent or outside
\* the band; and no price only when there is neither a last trade price nor
\* a midpoint
C22_ToPriceChoice ==
  fnOut.done =>
    /\ (fnIn.lastTradePrice # NULL /\ HasBook /\ LastInBand) =>
         fnOut.price = fnIn.lastTradePrice
    /\ (HasBook /\ (fnIn.lastTradePrice = NULL \/ ~LastInBand)) =>
         2 * fnOut.price = fnIn.bestBid + fnIn.bestAsk
    /\ fnOut.price = NULL <=> (fnIn.lastTradePrice = NULL /\ ~HasBook)

\* a last trade price exactly eps below the lower of a crossed book
C22_Witness ==
  /\ fnOut.done
  /\ fnIn.bestBid > fnIn.bestAsk
  /\ fnIn.bestAsk # NULL
  /\ fnIn.lastTradePrice = fnIn.bestAsk - TO_PRICE_EPS
  /\ fnOut.price = fnIn.lastTradePrice

\* a last trade price just outside the band, replaced by the midpoint
C22_WitnessMidpoint ==
  /\ fnOut.done
  /\ HasBook
  /\ fnIn.lastTradePrice = Max2(fnIn.bestBid, fnIn.bestAsk) + TO_PRICE_EPS + 1
  /\ fnOut.price = 15

\* ---------------------------------------------------------------------
\* SpecStoreBad: the calls of SpecStore, the server starting with store
\* files it cannot use
\* ---------------------------------------------------------------------

\* a file JSON.parse throws on
UnparsableFile == [exists |-> TRUE, unparsable |-> TRUE]

\* a file holding JSON that is not an object (null, a number, a string)
ScalarFile == [exists |-> TRUE, scalar |-> TRUE]

\* the document this code would have written for the full log at the path of
\* includeIncomplete, under another schema version
StoreOfVersion(schemaVersion, includeIncomplete) ==
  [QuietStore(Len(UpdownScript), includeIncomplete, ConfigFile.raw)
     EXCEPT !.schemaVersion = schemaVersion]

\* what the derived directory holds when the server starts: at both paths
\* a file of the same kind
BadInitialStores ==
  { [p \in DOMAIN NoStores |-> UnparsableFile],
    [p \in DOMAIN NoStores |-> ScalarFile] } \cup
  { [p \in DOMAIN NoStores |->
       IF p = OwnStorePath(FALSE) THEN StoreOfVersion(v, FALSE)
       ELSE StoreOfVersion(v, TRUE)] :
      v \in {PATTERN_STORE_SCHEMA_VERSION - 1, PATTERN_STORE_SCHEMA_VERSION + 1} }

InitStoreBad ==
  /\ updRows = 0
  /\ cfgFile = ConfigFile
  /\ cfgCache = InitialConfigCache
  /\ patternCache = <<>>
  /\ stores \in BadInitialStores
  /\ call = Idle
  /\ resp = [present |-> FALSE]
  /\ nQueries = 0
  /\ SideIdle
  /\ WindowIdle
  /\ MoreIdle

SpecStoreBad == InitStoreBad /\ [][NextStore]_vars

\* the file is there and is not a JSON object of the current schema version
BadDocument(doc) ==
  /\ doc.exists
  /\ \/ doc \in {UnparsableFile, ScalarFile}
     \/ doc.schemaVersion # PATTERN_STORE_SCHEMA_VERSION

\* a document of the current schema version holding exactly these windows
CurrentDocument(doc, windows) ==
  /\ doc.exists
  /\ ~BadDocument(doc)
  /\ doc.windows = windows

\* a call for includeIncomplete is reading or has read the store
CallOn(includeIncomplete) ==
  /\ call.pc \in {"index", "compute"}
  /\ call.includeIncomplete = includeIncomplete

\* the step of a call that found an unusable file at the path p
BadStoreStep(p) ==
  /\ call.pc = "index" /\ call'.pc = "compute" =>
       /\ call'.existingStore = NoStore
       /\ ~call'.prev.found
  /\ call' = Idle =>
       /\ resp'.present
       /\ resp'.log.kind \in {"empty", "computed"}
       /\ resp'.log.kind = "empty" =>
            /\ resp'.body.intervals = <<>>
            /\ CurrentDocument(stores'[p], <<>>)
       /\ resp'.log.kind = "computed" =>
            /\ ~resp'.log.prev.found
            /\ Len(resp'.body.intervals) = 1
            /\ CurrentDocument(stores'[p],
                 [k \in {getIntervalPatternKey(resp'.body.intervals[1].interval)} |->
                    resp'.log.record])
  /\ call' # Idle => stores' = stores

\* C23: a store file of another schemaVersion, one that does not parse and
\* one that is not a JSON object are treated as absent: the call ends with
\* a response, no stored record is reused, every window is recomputed and
\* a store of the current schema version is written in its place
C23_BadStoreAsAbsent ==
  [][\A includeIncomplete \in BOOLEAN :
       (CallOn(includeIncomplete) /\ call' # call
        /\ BadDocument(stores[OwnStorePath(includeIncomplete)]))
         => BadStoreStep(OwnStorePath(includeIncomplete))]_vars

\* the first call found, for the full log, a document of another schema
\* version whose record carries the signature, the hash, the version and the
\* flag of the call; it computed the record and the store of the current
\* version replaced the document, the file at the other path being as it was
C23_Witness ==
  /\ nQueries = 1
  /\ resp.present
  /\ resp.log.kind = "computed"
  /\ resp.log.signedRows = Len(UpdownScript)
  /\ resp.log.readRows = Len(UpdownScript)
  /\ ~resp.log.includeIncomplete
  /\ stores[OwnStorePath(TRUE)] = StoreOfVersion(PATTERN_STORE_SCHEMA_VERSION + 1, TRUE)
  /\ stores[OwnStorePath(FALSE)] = QuietStore(Len(UpdownScript), FALSE, ConfigFile.raw)
  /\ RecordMatches(StoreOfVersion(PATTERN_STORE_SCHEMA_VERSION + 1, FALSE).windows[WindowId],
                   resp.log.sourceSignature, resp.log.configState, FALSE)

\* the same for a file that does not parse
C23_WitnessUnparsable ==
  /\ nQueries = 1
  /\ resp.present
  /\ resp.log.kind = "computed"
  /\ resp.log.includeIncomplete
  /\ stores[OwnStorePath(FALSE)] = UnparsableFile
  /\ CurrentDocument(stores[OwnStorePath(TRUE)],
                     [k \in {WindowId} |-> resp.log.record])

\* ---------------------------------------------------------------------
\* SpecCollector: the collector (updownDataCollector.js) aggregating the
\* states of the CLOB stream into updown_state.jsonl, with the flush timer,
\* the market refresh and the shutdown
\* ---------------------------------------------------------------------

\* COLLECTOR_AGGREGATE_MS, its default
AGGREGATE_MS == 500

flushGraceMs == 50

\* the events the stream delivers in a run, and the steps of the clock
MaxCollectorEvents == 3
MaxCollectorTicks == 2

\* the clock advances by this much between two callbacks
CollectorTickMs == (AGGREGATE_MS + flushGraceMs) \div 2

\* how far behind the clock the event time of a delayed message is
EventLagMs == AGGREGATE_MS + flushGraceMs

unassignedDir == <<"_", "u">>

\* strings the collector turns into directory names are sequences of
\* characters
ForbiddenChars == {"\\", "/", ":", "*", "?", "\"", "<", ">", "|"}
WhitespaceChars == {" "}

RECURSIVE TrimStart(_)
TrimStart(x) ==
  IF x # <<>> /\ Head(x) \in WhitespaceChars THEN TrimStart(Tail(x)) ELSE x

RECURSIVE TrimEnd(_)
TrimEnd(x) ==
  IF x # <<>> /\ x[Len(x)] \in WhitespaceChars
  THEN TrimEnd(SubSeq(x, 1, Len(x) - 1)) ELSE x

RECURSIVE ReplaceRuns(_, _)
\* x.replace(/[class]+/g, "-")
ReplaceRuns(x, class) ==
  IF x = <<>> THEN <<>>
  ELSE IF Head(x) \in class
       THEN IF Len(x) > 1 /\ x[2] \in class
            THEN ReplaceRuns(Tail(x), class)
            ELSE <<"-">> \o ReplaceRuns(Tail(x), class)
       ELSE <<Head(x)>> \o ReplaceRuns(Tail(x), class)

normalizeDirName(x) ==
  LET raw == TrimEnd(TrimStart(x))
      replaced == ReplaceRuns(ReplaceRuns(raw, ForbiddenChars), WhitespaceChars)
  IN  IF raw = <<>> THEN <<>>
      ELSE SubSeq(replaced, 1, Min2(Len(replaced), 160))

\* activeMarket as main() creates it; a null slug and an empty one are both
\* falsy and both the empty sequence here
NullMarket == [slug |-> <<>>, id |-> "", upTokenId |-> "", downTokenId |-> ""]

\* the markets resolveCurrentBtc15mMarket resolves, one after the other
MarketA == [slug |-> <<"5", "m", "-", "1">>, id |-> "1", upTokenId |-> "ua", downTokenId |-> "da"]
MarketB == [slug |-> <<"5", "m", "-", "2">>, id |-> "2", upTokenId |-> "ub", downTokenId |-> "db"]
ResolvedMarkets == {MarketA, MarketB}

\* String(a).localeCompare(String(b)) < 0 on the token ids
AssetOrder == <<"da", "db", "ua", "ub">>
AssetRank(assetId) == CHOOSE n \in 1..Len(AssetOrder) : AssetOrder[n] = assetId

\* `${marketSlug}|${evt.assetId}|${bucketStartMs}`
BucketKey(marketSlug, assetId, bucketStartMs) ==
  [marketSlug |-> marketSlug, assetId |-> assetId, bucketStartMs |-> bucketStartMs]

KeyOfBucket(bucket) == BucketKey(bucket.marketSlug, bucket.assetId, bucket.bucketStartMs)

\* aggregateBuckets.get(key): the position in the Map, 0 when absent
BucketIndex(buckets, key) ==
  IF \E n \in 1..Len(buckets) : KeyOfBucket(buckets[n]) = key
  THEN CHOOSE n \in 1..Len(buckets) : KeyOfBucket(buckets[n]) = key
  ELSE 0

\* the comparator of keysToFlush.sort
BucketBefore(ba, bb) ==
  IF ba.bucketStartMs # bb.bucketStartMs THEN ba.bucketStartMs < bb.bucketStartMs
  ELSE AssetRank(ba.assetId) < AssetRank(bb.assetId)

RECURSIVE InsertBucket(_, _)
InsertBucket(sorted, b) ==
  IF sorted = <<>> THEN <<b>>
  ELSE IF BucketBefore(b, sorted[Len(sorted)])
       THEN Append(InsertBucket(SubSeq(sorted, 1, Len(sorted) - 1), b), sorted[Len(sorted)])
       ELSE Append(sorted, b)

RECURSIVE SortBuckets(_)
\* Array.prototype.sort is stable
SortBuckets(bs) ==
  IF bs = <<>> THEN <<>>
  ELSE InsertBucket(SortBuckets(SubSeq(bs, 1, Len(bs) - 1)), bs[Len(bs)])

\* writeUpdownSnapshot: the row and the window directory it is appended in
writeUpdownSnapshot(bucket) ==
  [windowId |-> IF normalizeDirName(bucket.marketSlug) # <<>>
                THEN normalizeDirName(bucket.marketSlug) ELSE unassignedDir,
   row |-> [market_slug |-> bucket.marketSlug,
            asset_id |-> bucket.assetId,
            side |-> bucket.side,
            event_time_ms |-> bucket.lastEventTimeMs,
            receive_time_ms |-> bucket.lastReceiveTimeMs,
            best_bid |-> bucket.latestState.bestBid,
            bucket_start_ms |-> bucket.bucketStartMs,
            bucket_end_ms |-> bucket.bucketEndMs,
            sample_count |-> bucket.sampleCount,
            last_event_time_ms |-> bucket.lastEventTimeMs]]

\* a flush that never forces
ToFlushDueOnly(bucket, nowMs, forceAll) == bucket.bucketEndMs <= nowMs - flushGraceMs

\* forceAll || bucket.bucketEndMs <= nowMs - flushGraceMs
ToFlush(bucket, nowMs, forceAll) ==
  forceAll \/ bucket.bucketEndMs <= nowMs - flushGraceMs

\* flushAggregation(nowMs, forceAll): the buckets left and the rows appended
flushAggregation(buckets, nowMs, forceAll) ==
  LET Flushed(b) == ToFlush(b, nowMs, forceAll)
      Kept(b) == ~ToFlush(b, nowMs, forceAll)
      keysToFlush == SortBuckets(SelectSeq(buckets, Flushed))
  IN  [buckets |-> SelectSeq(buckets, Kept),
       written |-> [n \in 1..Len(keysToFlush) |-> writeUpdownSnapshot(keysToFlush[n])]]

\* persistState(evt) with aggregation on: the Map after the event
persistState(buckets, activeMarket, evt) ==
  LET side == IF evt.assetId = activeMarket.upTokenId THEN "up"
              ELSE IF evt.assetId = activeMarket.downTokenId THEN "down"
              ELSE "other"
      bucketStartMs == (evt.eventAtMs \div AGGREGATE_MS) * AGGREGATE_MS
      key == BucketKey(activeMarket.slug, evt.assetId, bucketStartMs)
      at == BucketIndex(buckets, key)
  IN  IF at = 0
      THEN Append(buckets,
                  [marketSlug |-> activeMarket.slug,
                   assetId |-> evt.assetId,
                   side |-> side,
                   bucketStartMs |-> bucketStartMs,
                   bucketEndMs |-> bucketStartMs + AGGREGATE_MS,
                   sampleCount |-> 1,
                   lastEventTimeMs |-> evt.eventAtMs,
                   lastReceiveTimeMs |-> evt.receiveAtMs,
                   latestState |-> evt.state])
      ELSE [buckets EXCEPT ![at] =
              [@ EXCEPT !.side = side,
                        !.sampleCount = @ + 1,
                        !.lastEventTimeMs = evt.eventAtMs,
                        !.lastReceiveTimeMs = evt.receiveAtMs,
                        !.latestState = evt.state]]

InitCollector ==
  /\ coll = [now |-> 0,
             ticks |-> 0,
             activeMarket |-> NullMarket,
             aggregateBuckets |-> <<>>,
             marketRefreshInFlight |-> FALSE,
             shutdownStarted |-> FALSE,
             nEvents |-> 0,
             merged |-> <<>>]
  /\ updownFiles = <<>>
  /\ fnIn = <<>>
  /\ fnOut = <<>>
  /\ cacheLog = <<>>
  /\ WriteIdle
  /\ JsonlIdle
  /\ AnalyzeIdle
  /\ SideIdle
  /\ WindowIdle
  /\ StoreIdle

CollectorRest ==
  UNCHANGED <<fnIn, fnOut, cacheLog, writeVars, jsonlVars, analyzeVars,
              sideVars, winVars, storeVars>>

\* time passes between two callbacks
CollectorTick ==
  /\ ~coll.shutdownStarted
  /\ coll.ticks < MaxCollectorTicks
  /\ coll' = [coll EXCEPT !.now = @ + CollectorTickMs, !.ticks = @ + 1]
  /\ UNCHANGED updownFiles
  /\ CollectorRest

\* the token ids processMessageObject lets through: the subscribed ones,
\* all of them while nothing is subscribed
SubscribedAssets(activeMarket) ==
  IF activeMarket = NullMarket
  THEN {MarketA.upTokenId, MarketA.downTokenId}
  ELSE {activeMarket.upTokenId, activeMarket.downTokenId}

\* onUpdate: persistState, for a state whose event time is the time of
\* receipt or lags behind it; the n-th event carries the n-th snapshot
StreamUpdate ==
  /\ ~coll.shutdownStarted
  /\ coll.nEvents < MaxCollectorEvents
  /\ \E assetId \in SubscribedAssets(coll.activeMarket), lag \in {0, EventLagMs} :
       /\ lag <= coll.now
       /\ LET evt == [assetId |-> assetId,
                      eventAtMs |-> coll.now - lag,
                      receiveAtMs |-> coll.now,
                      state |-> [bestBid |-> coll.nEvents + 1]]
              key == BucketKey(coll.activeMarket.slug, assetId,
                               (evt.eventAtMs \div AGGREGATE_MS) * AGGREGATE_MS)
          IN  IF coll.activeMarket.slug = <<>>
              THEN coll' = [coll EXCEPT !.nEvents = @ + 1]
              ELSE coll' = [coll EXCEPT
                      !.nEvents = @ + 1,
                      !.aggregateBuckets = persistState(@, coll.activeMarket, evt),
                      !.merged = Append(@, [key |-> key, state |-> evt.state])]
  /\ UNCHANGED updownFiles
  /\ CollectorRest

\* timerFlush: flushAggregation(Date.now(), false)
TimerFlush ==
  /\ ~coll.shutdownStarted
  /\ LET flushed == flushAggregation(coll.aggregateBuckets, coll.now, FALSE)
     IN  /\ coll' = [coll EXCEPT !.aggregateBuckets = flushed.buckets]
         /\ updownFiles' = updownFiles \o flushed.written
  /\ CollectorRest

\* refreshMarket up to "await resolveCurrentBtc15mMarket()"
RefreshStart ==
  /\ ~coll.shutdownStarted
  /\ ~coll.marketRefreshInFlight
  /\ coll' = [coll EXCEPT !.marketRefreshInFlight = TRUE]
  /\ UNCHANGED updownFiles
  /\ CollectorRest

\* the markets the resolution can return after the active one: the same one
\* or a later one
LaterMarkets(activeMarket) ==
  IF activeMarket = MarketB THEN {MarketB} ELSE ResolvedMarkets

\* refreshMarket after the await: nothing resolved, the same market, or a
\* switch
RefreshResolved ==
  /\ ~coll.shutdownStarted
  /\ coll.marketRefreshInFlight
  /\ \/ /\ coll' = [coll EXCEPT !.marketRefreshInFlight = FALSE]
        /\ UNCHANGED updownFiles
     \/ \E resolved \in LaterMarkets(coll.activeMarket) :
          /\ resolved # coll.activeMarket
          /\ LET flushed == flushAggregation(coll.aggregateBuckets, coll.now, TRUE)
             IN  /\ coll' = [coll EXCEPT !.marketRefreshInFlight = FALSE,
                                         !.aggregateBuckets = flushed.buckets,
                                         !.activeMarket = resolved]
                 /\ updownFiles' = updownFiles \o flushed.written
  /\ CollectorRest

\* shutdown: the timers are cleared and everything pending is flushed
CollectorShutdown ==
  /\ ~coll.shutdownStarted
  /\ LET flushed == flushAggregation(coll.aggregateBuckets, coll.now, TRUE)
     IN  /\ coll' = [coll EXCEPT !.shutdownStarted = TRUE,
                                 !.aggregateBuckets = flushed.buckets]
         /\ updownFiles' = updownFiles \o flushed.written
  /\ CollectorRest

NextCollector ==
  \/ CollectorTick
  \/ StreamUpdate
  \/ TimerFlush
  \/ RefreshStart
  \/ RefreshResolved
  \/ CollectorShutdown

SpecCollector == InitCollector /\ [][NextCollector]_vars

\* the key of a row of updown_state.jsonl
KeyOfRow(row) == BucketKey(row.market_slug, row.asset_id, row.bucket_start_ms)

\* the rows written for a key, and the events merged under it, in order
RowsOfKey(key) ==
  LET OfKey(w) == KeyOfRow(w.row) = key
  IN  SelectSeq(updownFiles, OfKey)

EventsOfKey(key) ==
  LET OfKey(e) == e.key = key
  IN  SelectSeq(coll.merged, OfKey)

MergedKeys == {coll.merged[n].key : n \in 1..Len(coll.merged)}

\* C24: with aggregation on, at most one row is written per (market_slug,
\* asset_id, bucket_start_ms), events that fall in a bucket already flushed
\* included; once nothing is pending for the key the row carries the last
\* snapshot merged and sample_count is the number of events merged
C24_OneRowPerBucket ==
  /\ \A n \in 1..Len(updownFiles) : KeyOfRow(updownFiles[n].row) \in MergedKeys
  /\ \A key \in MergedKeys :
       /\ Len(RowsOfKey(key)) <= 1
       /\ (BucketIndex(coll.aggregateBuckets, key) = 0) =>
            /\ Len(RowsOfKey(key)) = 1
            /\ RowsOfKey(key)[1].row.sample_count = Len(EventsOfKey(key))
            /\ RowsOfKey(key)[1].row.best_bid =
                 EventsOfKey(key)[Len(EventsOfKey(key))].state.bestBid

\* every row lies in the window directory named by its own market_slug,
\* and every pending bucket belongs to the active market
RowsInOwnDirectory ==
  /\ \A n \in 1..Len(updownFiles) :
       /\ updownFiles[n].row.market_slug # <<>>
       /\ updownFiles[n].windowId = updownFiles[n].row.market_slug
  /\ \A n \in 1..Len(coll.aggregateBuckets) :
       coll.aggregateBuckets[n].marketSlug = coll.activeMarket.slug

\* the rows appended by the step hold one row for every bucket that was
\* pending, in the directory of the bucket's market
PendingWritten ==
  /\ Len(updownFiles') = Len(updownFiles) + Len(coll.aggregateBuckets)
  /\ \A n \in 1..Len(coll.aggregateBuckets) :
       \E k \in (Len(updownFiles) + 1)..Len(updownFiles') :
         /\ KeyOfRow(updownFiles'[k].row) = KeyOfBucket(coll.aggregateBuckets[n])
         /\ updownFiles'[k].windowId = coll.activeMarket.slug
         /\ updownFiles'[k].row.sample_count = coll.aggregateBuckets[n].sampleCount

\* C25: the step that changes the active market writes every pending
\* bucket and leaves none pending; every row is in the directory named by
\* its own market_slug, so no bucket of the previous market is written into
\* the directory of the new one
C25_FlushBeforeSwitch ==
  [][/\ RowsInOwnDirectory'
     /\ coll'.activeMarket # coll.activeMarket =>
          /\ PendingWritten
          /\ coll'.aggregateBuckets = <<>>]_vars

\* the second market is active, and the first one's directory holds a row
\* of a bucket that was not yet due when the switch wrote it, the second
\* one's directory a row of its own
C25_Witness ==
  /\ coll.activeMarket = MarketB
  /\ \E n \in 1..Len(updownFiles) :
       /\ updownFiles[n].windowId = MarketA.slug
       /\ updownFiles[n].row.market_slug = MarketA.slug
       /\ updownFiles[n].row.bucket_end_ms > coll.now - flushGraceMs
  /\ \E n \in 1..Len(updownFiles) :
       /\ updownFiles[n].windowId = MarketB.slug
       /\ updownFiles[n].row.market_slug = MarketB.slug

\* ---------------------------------------------------------------------
\* SpecSide: the order in which the loader pushed the points
\* ---------------------------------------------------------------------

\* the orders of n items
Orders(n) ==
  {f \in [1..n -> 1..n] : \A i \in 1..n, j \in 1..n : i # j => f[i] # f[j]}

\* the same points pushed in the order f
Reordered(points, f) == [i \in 1..Len(points) |-> points[f[i]]]

\* C26: the hits and the metrics evaluateSidePatterns reports are the same
\* for every order of the same points, points that share a timestamp and
\* differ in price included
C26_OrderIndependent ==
  sideEval.done =>
    \A f \in Orders(Len(sidePts)) :
      LET other == evaluateSidePatterns(Reordered(sidePts, f), WindowStartMs,
                                        WindowEndMs, sideEval.raw)
      IN  /\ other.hits = sideEval.result.hits
          /\ other.metricsByPattern = sideEval.result.metricsByPattern

\* the same for series whose timestamps are all different
OrderIndependentDistinctTimes ==
  (sideEval.done
   /\ \A i \in 1..Len(sidePts), j \in 1..Len(sidePts) :
        i # j => sidePts[i].ts # sidePts[j].ts) =>
    \A f \in Orders(Len(sidePts)) :
      evaluateSidePatterns(Reordered(sidePts, f), WindowStartMs,
                           WindowEndMs, sideEval.raw) = sideEval.result

\* ---------------------------------------------------------------------
\* SpecLegacy: the CLI loaders (stats5mPatterns.js) reading the same
\* updown_state.jsonl and btc_reference.jsonl, as the flat files of a
\* date (loadLegacyWindows) and as the files of one window directory
\* (loadPartitionedWindows)
\* ---------------------------------------------------------------------

\* the rows and the reference rows of the files
MaxLegacyRows == 2
MaxLegacyBtc == 2

\* A market slug or directory name by its parts: what precedes the minutes,
\* the minutes and the ten digits, in seconds after the start of the day
Slug(family, minutes, startSec) ==
  [family |-> family, minutes |-> minutes, startSec |-> startSec]

\* no market_slug on the row; a directory named by the time of day
NoSlug == Slug("", 0, 0)
OtherName == Slug("0935", 0, 0)

NoMeta == [none |-> TRUE]

\* parseMarketMeta(value): /btc-updown-(\d+)m-(\d{10})$/
parseMarketMeta(value) ==
  IF value.family # "btc-updown" \/ value.minutes <= 0 THEN NoMeta
  ELSE [minutes |-> value.minutes,
        windowMs |-> value.minutes * 60 * 1000,
        startMs |-> value.startSec * 1000,
        endMs |-> value.startSec * 1000 + value.minutes * 60 * 1000]

\* a floorToBucket that leaves the timestamp as it is
floorToBucketNone(ts, bucketMs) == ts

\* floorToBucket(ts, bucketMs)
floorToBucket(ts, bucketMs) == (ts \div bucketMs) * bucketMs

\* String(row?.side || "").toLowerCase() on the labels of the rows
SideLower(side) == IF side \in {"up", "UP", "Up"} THEN "up"
                   ELSE IF side \in {"down", "DOWN"} THEN "down"
                   ELSE side

\* a row of updown_state.jsonl: ts is toUpdownPointTimeMs(row) and price is
\* toPrice(row), NULL when there is none
UpdownRow(slug, side, ts, price) ==
  [market_slug |-> slug, side |-> side, ts |-> ts, price |-> price]

\* the 5-minute markets of the rows: one on the grid, the next one on the
\* grid, one that starts between two grid points
SlugGrid == Slug("btc-updown", 5, 0)
SlugNext == Slug("btc-updown", 5, 300)
SlugOffGrid == Slug("btc-updown", 5, 150)

UpdownRowChoices ==
  { UpdownRow(SlugGrid, "up", 10000, 500),
    UpdownRow(SlugGrid, "other", 10000, 500),
    UpdownRow(SlugGrid, "down", 10000, NULL),
    UpdownRow(SlugOffGrid, "UP", 160000, 500),
    UpdownRow(SlugNext, "other", 310000, 500),
    UpdownRow(Slug("btc-updown", 15, 0), "up", 10000, 500),
    UpdownRow(NoSlug, "down", 10000, 500) }

\* the rows of btc_reference.jsonl as { ts, price } after toBtcTimeMs and
\* toFiniteNumber: inside the first window, at its end, in the next one,
\* and one without a price
BtcRowChoices ==
  { Pt(0, 1), Pt(299999, 1), Pt(300000, 1), Pt(400000, 1), Pt(150000, NULL) }

RECURSIVE LegacyScan(_, _, _)
\* the first eachJsonl of loadLegacyWindows over rows[n..]: windowsBySlug in
\* insertion order
LegacyScan(rows, n, windowsBySlug) ==
  IF n > Len(rows) THEN windowsBySlug
  ELSE LET row == rows[n]
           slug == row.market_slug
           parsed == parseMarketMeta(slug)
           Is(w) == w.marketSlug = slug
           found == SelectSeq(windowsBySlug, Is) # <<>>
           withWindow == IF found THEN windowsBySlug
                         ELSE Append(windowsBySlug, newWindow(WindowDate, slug, slug, parsed))
           side == SideLower(row.side)
       IN  IF slug = NoSlug THEN LegacyScan(rows, n + 1, windowsBySlug)
           ELSE IF parsed = NoMeta THEN LegacyScan(rows, n + 1, windowsBySlug)
           ELSE IF parsed.minutes # 5 THEN LegacyScan(rows, n + 1, windowsBySlug)
           ELSE IF side # "up" /\ side # "down" THEN LegacyScan(rows, n + 1, withWindow)
           ELSE IF row.ts = NULL \/ row.price = NULL THEN LegacyScan(rows, n + 1, withWindow)
           ELSE LegacyScan(rows, n + 1,
                  [k \in 1..Len(withWindow) |->
                     IF withWindow[k].marketSlug = slug
                     THEN [withWindow[k] EXCEPT !.sidePoints[side] =
                             Append(@, Pt(row.ts, row.price))]
                     ELSE withWindow[k]])

\* the second eachJsonl of loadLegacyWindows: the reference points of w
LegacyBtcPoints(w, btc) ==
  LET Mine(p) == /\ p.ts # NULL
                 /\ p.price # NULL
                 /\ w.startMs = floorToBucket(p.ts, FIVE_MIN_MS)
  IN  SelectSeq(btc, Mine)

\* loadLegacyWindows(root, date, warnings, counters): the windows returned
loadLegacyWindows(updown, btc) ==
  LET windowsBySlug == LegacyScan(updown, 1, <<>>)
  IN  [k \in 1..Len(windowsBySlug) |->
         finalizeWindow([windowsBySlug[k] EXCEPT
                           !.btcPoints = LegacyBtcPoints(windowsBySlug[k], btc)])]

NoWindow == [window |-> FALSE]

RECURSIVE PartitionedScan(_, _, _, _)
\* the first eachJsonl of loadPartitionedWindows for the directory
\* entryName over rows[n..]; st holds parsed, marketSlug and window
PartitionedScan(entryName, rows, n, st) ==
  IF n > Len(rows) THEN st
  ELSE LET row == rows[n]
           side == SideLower(row.side)
           slug == row.market_slug
           marketSlug == IF slug # NoSlug THEN slug ELSE st.marketSlug
           parsed == IF st.parsed = NoMeta /\ slug # NoSlug
                     THEN parseMarketMeta(slug) ELSE st.parsed
           window == IF st.window = NoWindow
                     THEN newWindow(WindowDate, entryName, marketSlug, parsed)
                     ELSE st.window
       IN  IF side # "up" /\ side # "down" THEN PartitionedScan(entryName, rows, n + 1, st)
           ELSE IF row.ts = NULL \/ row.price = NULL
                THEN PartitionedScan(entryName, rows, n + 1, st)
           ELSE IF parsed = NoMeta
                THEN PartitionedScan(entryName, rows, n + 1,
                                     [st EXCEPT !.marketSlug = marketSlug])
           ELSE IF parsed.minutes # 5
                THEN PartitionedScan(entryName, rows, n + 1,
                                     [st EXCEPT !.marketSlug = marketSlug,
                                                !.parsed = parsed])
           ELSE PartitionedScan(entryName, rows, n + 1,
                  [parsed |-> parsed,
                   marketSlug |-> marketSlug,
                   window |-> [window EXCEPT
                                 !.marketSlug = marketSlug,
                                 !.sidePoints[side] = Append(@, Pt(row.ts, row.price))]])

\* loadPartitionedWindows for a date whose only window directory is
\* entryName: the windows returned
loadPartitionedWindows(entryName, updown, btc) ==
  LET parsedById == parseMarketMeta(entryName)
      st == PartitionedScan(entryName, updown, 1,
              [parsed |-> parsedById,
               marketSlug |-> entryName,
               window |-> IF parsedById # NoMeta
                          THEN newWindow(WindowDate, entryName, entryName, parsedById)
                          ELSE NoWindow])
      Usable(p) == p.ts # NULL /\ p.price # NULL
  IN  IF st.parsed = NoMeta THEN <<>>
      ELSE IF st.parsed.minutes # 5 \/ st.window = NoWindow THEN <<>>
      ELSE <<finalizeWindow([st.window EXCEPT !.btcPoints = SelectSeq(btc, Usable)])>>

\* the window directories of the partitioned reading: one named by the
\* market on the grid, one whose name is no slug
DirNames == {SlugGrid, OtherName}

InitLegacy ==
  /\ fnIn = [updown |-> <<>>, btc |-> <<>>]
  /\ fnOut = NotCalled
  /\ coll = <<>>
  /\ updownFiles = <<>>
  /\ cacheLog = <<>>
  /\ WriteIdle
  /\ JsonlIdle
  /\ AnalyzeIdle
  /\ SideIdle
  /\ WindowIdle
  /\ StoreIdle

LegacyRest ==
  UNCHANGED <<coll, updownFiles, cacheLog, writeVars, jsonlVars, analyzeVars,
              sideVars, winVars, storeVars>>

\* one more row in updown_state.jsonl
LegacyAppendUpdown ==
  /\ Len(fnIn.updown) < MaxLegacyRows
  /\ \E row \in UpdownRowChoices :
       fnIn' = [fnIn EXCEPT !.updown = Append(@, row)]
  /\ fnOut' = NotCalled
  /\ LegacyRest

\* one more row in btc_reference.jsonl
LegacyAppendBtc ==
  /\ Len(fnIn.btc) < MaxLegacyBtc
  /\ \E row \in BtcRowChoices :
       fnIn' = [fnIn EXCEPT !.btc = Append(@, row)]
  /\ fnOut' = NotCalled
  /\ LegacyRest

\* the rows of neither side removed from a file
WithoutOtherSides(rows) ==
  LET Sided(row) == SideLower(row.side) \in {"up", "down"}
  IN  SelectSeq(rows, Sided)

\* the files are loaded, as the flat files of the date and as the files
\* of a window directory, with and without the rows of neither side
LegacyLoad ==
  /\ ~fnOut.done
  /\ \E entryName \in DirNames :
       fnOut' = [done |-> TRUE,
                 entryName |-> entryName,
                 legacy |-> loadLegacyWindows(fnIn.updown, fnIn.btc),
                 legacySided |-> loadLegacyWindows(WithoutOtherSides(fnIn.updown), fnIn.btc),
                 partitioned |-> loadPartitionedWindows(entryName, fnIn.updown, fnIn.btc),
                 partitionedSided |->
                   loadPartitionedWindows(entryName, WithoutOtherSides(fnIn.updown), fnIn.btc)]
  /\ UNCHANGED fnIn
  /\ LegacyRest

NextLegacy ==
  \/ LegacyAppendUpdown
  \/ LegacyAppendBtc
  \/ LegacyLoad

SpecLegacy == InitLegacy /\ [][NextLegacy]_vars

\* the 5-minute bucket of a timestamp
BucketOf(ts) == (ts \div 300000) * 300000

\* the usable reference rows whose bucket is the start of the window, in
\* file order
BtcRowsOfBucket(w) ==
  LET Mine(p) == p.ts # NULL /\ p.price # NULL /\ BucketOf(p.ts) = w.startMs
  IN  SelectSeq(fnIn.btc, Mine)

\* the usable reference rows whose bucket lies within the bounds of the
\* window, in file order
BtcRowsInBounds(w) ==
  LET Mine(p) == /\ p.ts # NULL
                 /\ p.price # NULL
                 /\ BucketOf(p.ts) >= w.startMs
                 /\ BucketOf(p.ts) <= w.endMs
  IN  SelectSeq(fnIn.btc, Mine)

\* C27 as stated: loadLegacyWindows adds a reference point to exactly the
\* windows whose bounds [startMs, endMs] contain the point's 5-minute
\* bucket, whether the window starts on the grid or not
C27_BtcInBoundsOfBucket ==
  fnOut.done =>
    \A k \in 1..Len(fnOut.legacy) :
      fnOut.legacy[k].btcPoints = sortPoints(BtcRowsInBounds(fnOut.legacy[k]))

\* C27 as amended: loadLegacyWindows adds a reference point to exactly the
\* windows whose startMs equals the point's 5-minute bucket; a window that
\* starts off the grid receives none
C27_BtcOfStartBucket ==
  fnOut.done =>
    \A k \in 1..Len(fnOut.legacy) :
      /\ fnOut.legacy[k].btcPoints = sortPoints(BtcRowsOfBucket(fnOut.legacy[k]))
      /\ BucketOf(fnOut.legacy[k].startMs) # fnOut.legacy[k].startMs =>
           fnOut.legacy[k].btcPoints = <<>>

\* the window on the grid has the point of its own bucket and not the one
\* at its end, and the window off the grid has no point although the
\* bucket of a row lies within its bounds
C27_Witness ==
  /\ fnOut.done
  /\ fnIn.btc = <<Pt(300000, 1), Pt(299999, 1)>>
  /\ Len(fnOut.legacy) = 2
  /\ fnOut.legacy[1].marketSlug = SlugGrid
  /\ fnOut.legacy[1].btcPoints = <<Pt(299999, 1)>>
  /\ fnOut.legacy[2].marketSlug = SlugOffGrid
  /\ fnOut.legacy[2].btcPoints = <<>>
  /\ BtcRowsInBounds(fnOut.legacy[2]) = <<Pt(300000, 1)>>

\* C28: a row of updown_state.jsonl whose side, lower-cased, is neither up
\* nor down adds no point to any window and makes no window exist, in the
\* partitioned and in the legacy loader: the windows loaded are those loaded
\* from the files without such rows
C28_OtherSideRowsIgnored ==
  fnOut.done =>
    /\ fnOut.partitioned = fnOut.partitionedSided
    /\ fnOut.legacy = fnOut.legacySided

\* the partitioned half of it
OtherSideRowsIgnoredPartitioned ==
  fnOut.done => fnOut.partitioned = fnOut.partitionedSided

\* the legacy half as far as points go: the windows that exist either way
\* are the same
OtherSideRowsAddNoPointLegacy ==
  fnOut.done =>
    \A k \in 1..Len(fnOut.legacySided) :
      \E j \in 1..Len(fnOut.legacy) : fnOut.legacy[j] = fnOut.legacySided[k]

\* ---------------------------------------------------------------------
\* SpecScan: calls of buildIntervalsWithPatterns for a date in the legacy
\* layout (updown_state.jsonl and btc_reference.jsonl in the day directory
\* itself), the collector appending meanwhile
\* ---------------------------------------------------------------------

\* an entry of the day directory: hasUpdown and hasBtc say whether a
\* directory holds updown_state.jsonl and btc_reference.jsonl
DirEntry(name, isDirectory, hasUpdown, hasBtc) ==
  [name |-> name, isDirectory |-> isDirectory, hasUpdown |-> hasUpdown, hasBtc |-> hasBtc]

\* entry.name.startsWith(".")
IsHiddenName(name) == name \in {".cache", ".git"}

\* always partitioned
hasPartitionedWindowDirsAlways(dayDir) == TRUE

\* hasPartitionedWindowDirs(date), dayDir being the entries of the day
\* directory
hasPartitionedWindowDirs(dayDir) ==
  \E entry \in dayDir :
    /\ entry.isDirectory
    /\ ~IsHiddenName(entry.name)
    /\ entry.hasUpdown \/ entry.hasBtc

\* the two flat files of a legacy date
FlatFiles ==
  { DirEntry("updown_state.jsonl", FALSE, FALSE, FALSE),
    DirEntry("btc_reference.jsonl", FALSE, FALSE, FALSE) }

\* the day directories of a date in the legacy layout: the flat files alone,
\* with a hidden directory that holds a copy of a log, with a directory that
\* holds neither log; the derived directory empty or, in the last case,
\* holding a store this code wrote for the full log of a partitioned date
LegacyStarts ==
  { [dayDir |-> FlatFiles, stores |-> NoStores],
    [dayDir |-> FlatFiles \cup {DirEntry(".cache", TRUE, TRUE, FALSE)},
     stores |-> NoStores],
    [dayDir |-> FlatFiles \cup {DirEntry("notes", TRUE, FALSE, FALSE)},
     stores |-> [NoStores EXCEPT ![OwnStorePath(FALSE)] =
                   QuietStore(Len(UpdownScript), FALSE, ConfigFile.raw)]] }

\* computeDayPatternSignature on a date that is not partitioned, the flat
\* updown_state.jsonl holding n rows
computeDayPatternSignatureFlat(n) ==
  << statSignature("dayDir", 1),
     statSignature("updown_state.jsonl", n),
     statSignature("btc_reference.jsonl", Len(StoreBtcRows)) >>

\* buildIntervalsLegacy, the flat file holding the first n rows of the
\* script, every row carrying the slug of the window
buildIntervalsLegacy(n) ==
  LET interval == BuildInterval(WindowId, WindowStartMs, SideRowsAt(n, "up"),
                                SideRowsAt(n, "down"), StoreBtcRows)
  IN  IF interval.exists THEN <<interval>> ELSE <<>>

\* buildPatternIndexByScan on a date that is not partitioned, the flat file
\* holding n rows
buildPatternIndexByScan(intervals, includeIncomplete, patternConfig, n) ==
  LET SidePointsOf(interval) ==
        IF interval.marketSlug = WindowId
        THEN [up |-> SideRowsAt(n, "up"), down |-> SideRowsAt(n, "down")]
        ELSE [up |-> <<>>, down |-> <<>>]
      windows == [i \in 1..Len(intervals) |->
                    IntervalWindow(WindowDate, intervals[i], SidePointsOf(intervals[i]))]
      analyzed == analyzeWindows(windows, includeIncomplete, patternConfig)
      byWindowId == [k \in {windows[i].windowId : i \in 1..Len(windows)} |->
                       LET w == CHOOSE x \in {windows[i] : i \in 1..Len(windows)} :
                                  x.windowId = k
                       IN  normalizePatternInfo(deriveWindowPatternInfo(w, analyzed.hits))]
  IN  [summary |-> buildPatternSummary(intervals, byWindowId, includeIncomplete),
       byWindowId |-> byWindowId]

InitScan ==
  /\ updRows = 0
  /\ cfgFile = ConfigFile
  /\ cfgCache = InitialConfigCache
  /\ patternCache = <<>>
  /\ \E start \in LegacyStarts :
       /\ stores = start.stores
       /\ fnIn = [dayDir |-> start.dayDir]
  /\ call = Idle
  /\ resp = [present |-> FALSE]
  /\ nQueries = 0
  /\ fnOut = <<>>
  /\ coll = <<>>
  /\ updownFiles = <<>>
  /\ cacheLog = <<>>
  /\ WriteIdle
  /\ JsonlIdle
  /\ AnalyzeIdle
  /\ SideIdle
  /\ WindowIdle

\* buildIntervalsWithPatterns(date, includeIncomplete) up to the end of
\* "await buildIntervals"
ScanQueryStart ==
  /\ call = Idle
  /\ nQueries < MaxQueries
  /\ \E includeIncomplete \in BOOLEAN :
       call' = [pc |-> "index",
                includeIncomplete |-> includeIncomplete,
                intervals |-> IF hasPartitionedWindowDirs(fnIn.dayDir)
                              THEN buildIntervalsFromWindowDirs(updRows)
                              ELSE buildIntervalsLegacy(updRows),
                startRows |-> updRows]
  /\ nQueries' = nQueries + 1
  /\ UNCHANGED <<updRows, cfgFile, cfgCache, patternCache, stores, resp,
                 sideVars, winVars, moreVars>>

\* buildPatternIndexForDate up to its first await: on a partitioned date
\* the store path is taken; otherwise the cached value is returned on a hit
\* and buildPatternIndexByScan is awaited on a miss
ScanIndexStart ==
  /\ call.pc = "index"
  /\ IF hasPartitionedWindowDirs(fnIn.dayDir) THEN IndexStart
     ELSE LET daySignature == computeDayPatternSignatureFlat(updRows)
              patternConfigState == resolvePatternConfigState(cfgCache, cfgFile)
              cacheKey == PatternCacheKey(WindowDate, call.includeIncomplete,
                                          patternConfigState.hash, daySignature)
              cached == CacheIndex(patternCache, cacheKey)
          IN  /\ cfgCache' = patternConfigState
              /\ IF cached > 0
                 THEN /\ resp' = [present |-> TRUE,
                                  body |-> Response(WindowDate, call.intervals,
                                                    patternCache[cached].value),
                                  log |-> [kind |-> "cached",
                                           includeIncomplete |-> call.includeIncomplete,
                                           startRows |-> call.startRows]]
                      /\ call' = Idle
                 ELSE /\ call' = [call EXCEPT !.pc = "scan"]
                                   @@ [configState |-> patternConfigState,
                                       cacheKey |-> cacheKey]
                      /\ UNCHANGED resp
              /\ UNCHANGED <<updRows, cfgFile, patternCache, stores, nQueries,
                             sideVars, winVars, moreVars>>

\* buildPatternIndexByScan returns: the flat file is read as it is now, the
\* value is cached and the call ends
ScanDone ==
  /\ call.pc = "scan"
  /\ LET fallback == buildPatternIndexByScan(call.intervals, call.includeIncomplete,
                                             call.configState.value, updRows)
     IN  /\ patternCache' =
              evictPatternCacheIfNeeded(CacheSet(patternCache, call.cacheKey, fallback),
                                        PatternCacheMaxSize)
         /\ resp' = [present |-> TRUE,
                     body |-> Response(WindowDate, call.intervals, fallback),
                     log |-> [kind |-> "scanned",
                              includeIncomplete |-> call.includeIncomplete,
                              startRows |-> call.startRows,
                              readRows |-> updRows]]
         /\ call' = Idle
  /\ UNCHANGED <<updRows, cfgFile, cfgCache, stores, nQueries,
                 sideVars, winVars, moreVars>>

NextScan ==
  \/ CollectorAppend
  \/ Restart
  \/ ScanQueryStart
  \/ ScanIndexStart
  \/ ScanDone

SpecScan == InitScan /\ [][NextScan]_vars

\* C29: for a date in the legacy layout no step of any sequence of calls
\* creates or modifies a pattern store file
C29_LegacyNeverWritesStore == [][stores' = stores]_vars

\* the second call of a server that started without store files has scanned
\* the full log and reported a pattern for the window, and there is still no
\* store file
C29_Witness ==
  /\ nQueries = 2
  /\ resp.present
  /\ resp.log.kind = "scanned"
  /\ resp.log.readRows = Len(UpdownScript)
  /\ Len(resp.body.intervals) = 1
  /\ resp.body.intervals[1].patterns # <<>>
  /\ stores = NoStores

\* ---------------------------------------------------------------------
\* SpecConfig: the pattern configuration file read by the CLI
\* (loadPatternConfig) and by the replay server (resolvePatternConfigState),
\* the file being replaced between runs
\* ---------------------------------------------------------------------

\* replacements of the configuration file
MaxConfigEdits == 1

\* the file: missing, holding text that is not JSON, or holding a raw
\* configuration; version tells one writing of the file from the next
MissingConfig(version) == [exists |-> FALSE, invalid |-> FALSE, version |-> version]
InvalidConfig(version) == [exists |-> TRUE, invalid |-> TRUE, version |-> version]
ValidConfig(raw, version) ==
  [exists |-> TRUE, invalid |-> FALSE, version |-> version, raw |-> raw]

ConfigFilesAt(version) ==
  {MissingConfig(version), InvalidConfig(version)}
    \cup {ValidConfig(raw, version) : raw \in WinRawConfigs}

\* fileStatSignature(PATTERN_CONFIG_PATH): the path with size and mtime, which
\* the version stands for
fileStatSignature(file) ==
  IF file.exists THEN "config:" \o ToString(file.version) ELSE "config:missing"

\* the warning tracker of a CLI run, by code
NoCliWarnings ==
  [code \in {"missing_file", "bad_json_line", "bad_pattern_config_json"} |-> 0]

\* loadPatternConfig(patternConfigPath, warnings): what it returns and the
\* tracker it leaves
loadPatternConfig(file, tracker) ==
  LET bad == file.exists /\ file.invalid
      raw == IF file.exists /\ ~file.invalid THEN file.raw ELSE DEFAULT_PATTERN_CONFIG
      config == normalizePatternConfig(raw)
  IN  [source |-> IF file.exists /\ ~file.invalid THEN "resolvedPath" ELSE "default",
       hash |-> ConfigHash(config),
       config |-> config,
       warnings |-> IF bad THEN WarningsAdd(tracker, "bad_pattern_config_json")
                    ELSE tracker]

\* the raw configuration resolvePatternConfigState reads: the catch block
\* takes the defaults and records nothing
ServerRawConfig(file) ==
  IF file.exists /\ ~file.invalid THEN file.raw ELSE DEFAULT_PATTERN_CONFIG

InitConfig ==
  /\ cfgFile \in ConfigFilesAt(0)
  /\ cfgCache = InitialConfigCache
  /\ warnings = NoCliWarnings
  /\ fnIn = [edits |-> 0]
  /\ fnOut = [cli |-> NotCalled, server |-> NotCalled]
  /\ updRows = 0
  /\ patternCache = <<>>
  /\ stores = <<>>
  /\ call = <<>>
  /\ resp = <<>>
  /\ nQueries = 0
  /\ jsonl = <<>>
  /\ rowsSeen = <<>>
  /\ coll = <<>>
  /\ updownFiles = <<>>
  /\ cacheLog = <<>>
  /\ WriteIdle
  /\ AnalyzeIdle
  /\ SideIdle
  /\ WindowIdle

ConfigRest ==
  UNCHANGED <<updRows, patternCache, stores, call, resp, nQueries, jsonl, rowsSeen,
              coll, updownFiles, cacheLog, writeVars, analyzeVars, sideVars, winVars>>

\* the file is replaced, removed or created
ConfigReplace ==
  /\ fnIn.edits < MaxConfigEdits
  /\ \E file \in ConfigFilesAt(fnIn.edits + 1) :
       /\ [file EXCEPT !.version = 0] # [cfgFile EXCEPT !.version = 0]
       /\ cfgFile' = file
  /\ fnIn' = [edits |-> fnIn.edits + 1]
  /\ UNCHANGED <<cfgCache, warnings, fnOut>>
  /\ ConfigRest

\* a run of the CLI: a new tracker, loadPatternConfig, and the report with
\* the configuration and the warnings
CliRun ==
  /\ LET loaded == loadPatternConfig(cfgFile, NoCliWarnings)
     IN  /\ warnings' = loaded.warnings
         /\ fnOut' = [fnOut EXCEPT !.cli =
                        [done |-> TRUE,
                         file |-> cfgFile,
                         report |-> [config |-> [source |-> loaded.source,
                                                 hash |-> loaded.hash,
                                                 value |-> loaded.config],
                                     warnings |-> loaded.warnings]]]
  /\ UNCHANGED <<cfgFile, cfgCache, fnIn>>
  /\ ConfigRest

\* a call of the server resolves the configuration; recorded is what the
\* call records about the file: nothing
ServerResolve ==
  /\ LET state == resolvePatternConfigState(cfgCache,
                    [signature |-> fileStatSignature(cfgFile),
                     raw |-> ServerRawConfig(cfgFile)])
     IN  /\ cfgCache' = state
         /\ fnOut' = [fnOut EXCEPT !.server =
                        [done |-> TRUE,
                         file |-> cfgFile,
                         value |-> state.value,
                         hash |-> state.hash,
                         recorded |-> {}]]
  /\ UNCHANGED <<cfgFile, warnings, fnIn>>
  /\ ConfigRest

NextConfig ==
  \/ ConfigReplace
  \/ CliRun
  \/ ServerResolve

SpecConfig == InitConfig /\ [][NextConfig]_vars

\* C30: when the configuration file exists and is not valid JSON, the
\* configuration used is the normalized embedded defaults, a warning is
\* recorded and the report is produced, in the CLI and in the replay server
C30_InvalidConfigFallsBack ==
  /\ (fnOut.cli.done /\ fnOut.cli.file.exists /\ fnOut.cli.file.invalid) =>
       /\ fnOut.cli.report.config.value = normalizePatternConfig(DEFAULT_PATTERN_CONFIG)
       /\ fnOut.cli.report.warnings["bad_pattern_config_json"] > 0
  /\ (fnOut.server.done /\ fnOut.server.file.exists /\ fnOut.server.file.invalid) =>
       /\ fnOut.server.value = normalizePatternConfig(DEFAULT_PATTERN_CONFIG)
       /\ fnOut.server.recorded # {}

\* the parts of it that hold: the CLI as stated, the server without the
\* warning
InvalidConfigFallsBackSilentServer ==
  /\ (fnOut.cli.done /\ fnOut.cli.file.exists /\ fnOut.cli.file.invalid) =>
       /\ fnOut.cli.report.config.value = normalizePatternConfig(DEFAULT_PATTERN_CONFIG)
       /\ fnOut.cli.report.config.source = "default"
       /\ fnOut.cli.report.warnings["bad_pattern_config_json"] = 1
  /\ (fnOut.server.done /\ fnOut.server.file.exists /\ fnOut.server.file.invalid) =>
       /\ fnOut.server.value = normalizePatternConfig(DEFAULT_PATTERN_CONFIG)
       /\ fnOut.server.hash = ConfigHash(normalizePatternConfig(DEFAULT_PATTERN_CONFIG))

\* ---------------------------------------------------------------------
\* SpecEpoch: epochToMs of the collector (updownDataCollector.js) and of
\* terminal5m.js applied to the values a message can carry
\* ---------------------------------------------------------------------

\* A finite number is m * 10^e, so that seconds and milliseconds since 1970
\* and their fractions are all within reach of the arithmetic; mantissas lie
\* below 10^6.
Dec(m, e) == [m |-> m, e |-> e]

\* x >= 50_000_000_000
AtLeastMsThreshold(x) ==
  IF x.e >= 10 THEN x.m * 10 ^ (x.e - 10) >= 5
  ELSE IF x.e >= 2 THEN x.m >= 5 * 10 ^ (10 - x.e)
  ELSE FALSE

\* Math.floor(x)
DecFloor(x) == IF x.e >= 0 THEN x ELSE Dec(x.m \div (10 ^ (0 - x.e)), 0)

\* x * 1000
DecTimes1000(x) == Dec(x.m, x.e + 3)

\* the values: null, undefined, numbers finite or not, strings
JsUndefined == [undefined |-> TRUE]
JsFinite(x) == [finite |-> x]
JsNonFinite(name) == [nonfinite |-> name]

\* a string by what it holds between optional blanks: nothing, the text of
\* a finite number, an ISO date of a given time, or a word
StrEmpty(padded) == [str |-> "empty", padded |-> padded]
StrNumber(x, padded) == [str |-> "number", padded |-> padded, x |-> x]
StrDate(t, padded) == [str |-> "date", padded |-> padded, t |-> t]
StrWord(padded) == [str |-> "word", padded |-> padded]

IsString(x) == "str" \in DOMAIN x

\* Number(s) of a string: blanks are dropped, the empty text is 0, text
\* that is no number is NaN
NumberOfString(s) ==
  IF s.str = "empty" THEN JsFinite(Dec(0, 0))
  ELSE IF s.str = "number" THEN JsFinite(s.x)
  ELSE JsNonFinite("NaN")

\* new Date(trimmed).getTime()
DateOfString(s) == IF s.str = "date" THEN JsFinite(s.t) ELSE JsNonFinite("NaN")

NoTimestamp == [timestamp |-> FALSE]
Timestamp(x) == [timestamp |-> TRUE, ms |-> x]

\* the branch for typeof x === "number", x finite
EpochOfFinite(x) ==
  IF AtLeastMsThreshold(x) THEN Timestamp(DecFloor(x))
  ELSE Timestamp(DecFloor(DecTimes1000(x)))

\* epochToMs of updownDataCollector.js
epochToMs(x) ==
  IF x = JsonNull \/ x = JsUndefined THEN NoTimestamp
  ELSE IF IsString(x)
       THEN IF x.str = "empty" THEN NoTimestamp
            ELSE IF "finite" \in DOMAIN NumberOfString(x)
                 THEN EpochOfFinite(NumberOfString(x).finite)
                 ELSE IF "finite" \in DOMAIN DateOfString(x)
                      THEN Timestamp(DateOfString(x).finite)
                      ELSE NoTimestamp
  ELSE IF "finite" \in DOMAIN x THEN EpochOfFinite(x.finite)
  ELSE NoTimestamp

\* toFiniteNumber of terminal5m.js
toFiniteNumberTerminal(x) ==
  LET n == IF IsString(x) THEN NumberOfString(x)
           ELSE IF "finite" \in DOMAIN x \/ "nonfinite" \in DOMAIN x THEN x
           ELSE JsNonFinite("NaN")
  IN  IF "finite" \in DOMAIN n THEN n ELSE JsonNull

\* epochToMs of terminal5m.js
epochToMsTerminal(x) ==
  LET n == toFiniteNumberTerminal(x)
  IN  IF n = JsonNull THEN NoTimestamp ELSE EpochOfFinite(n.finite)

\* finite numbers: seconds and milliseconds of a day in 2026 with and
\* without fractions, the threshold and its neighbours, small, zero and
\* negative numbers
EpochNumbers ==
  { Dec(5, 10), Dec(49999, 6), Dec(499999, 5), Dec(50001, 6), Dec(5, 11),
    Dec(17771, 5), Dec(177714, 4), Dec(1777143, 3), Dec(17771432, 2),
    Dec(17771432, 5), Dec(177714325, 4), Dec(177714321, 1),
    Dec(15, -1), Dec(12345, -4), Dec(-15, -1), Dec(0, 0) }

EpochInputs ==
  {JsonNull, JsUndefined, JsNonFinite("NaN"), JsNonFinite("Infinity"),
   JsNonFinite("-Infinity")}
    \cup {JsFinite(x) : x \in EpochNumbers}
    \cup {StrNumber(x, padded) : x \in EpochNumbers, padded \in BOOLEAN}
    \cup {StrEmpty(padded) : padded \in BOOLEAN}
    \cup {StrWord(padded) : padded \in BOOLEAN}
    \cup {StrDate(Dec(1777143, 6), padded) : padded \in BOOLEAN}

InitEpoch ==
  /\ fnIn \in {[x |-> x] : x \in EpochInputs}
  /\ fnOut = NotCalled
  /\ coll = <<>>
  /\ updownFiles = <<>>
  /\ cacheLog = <<>>
  /\ WriteIdle
  /\ JsonlIdle
  /\ AnalyzeIdle
  /\ SideIdle
  /\ WindowIdle
  /\ StoreIdle

\* epochToMs(x) in the collector and in the terminal
EpochApply ==
  /\ ~fnOut.done
  /\ fnOut' = [done |-> TRUE,
               collector |-> epochToMs(fnIn.x),
               terminal |-> epochToMsTerminal(fnIn.x)]
  /\ UNCHANGED <<fnIn, coll, updownFiles, cacheLog, writeVars, jsonlVars,
                 analyzeVars, sideVars, winVars, storeVars>>

NextEpoch == EpochApply

SpecEpoch == InitEpoch /\ [][NextEpoch]_vars

\* what the statement gives for an input: floor(x) from 5 * 10^10 on and
\* floor(x * 1000) below, for a number and for a string holding it; no
\* timestamp for null, an empty string, a non-finite number and a word
EpochExpected(x, out) ==
  /\ "finite" \in DOMAIN x =>
       out = IF AtLeastMsThreshold(x.finite) THEN Timestamp(DecFloor(x.finite))
             ELSE Timestamp(DecFloor(Dec(x.finite.m, x.finite.e + 3)))
  /\ (IsString(x) /\ x.str = "number") =>
       out = IF AtLeastMsThreshold(x.x) THEN Timestamp(DecFloor(x.x))
             ELSE Timestamp(DecFloor(Dec(x.x.m, x.x.e + 3)))
  /\ (x = JsonNull \/ "nonfinite" \in DOMAIN x) => out = NoTimestamp
  /\ (IsString(x) /\ x.str \in {"empty", "word"}) => out = NoTimestamp

\* C31: epochToMs returns floor(x) for a finite number x >= 50000000000 and
\* floor(x * 1000) below that, the same for a string holding the number,
\* and no timestamp for null, an empty string, a non-finite number or an
\* unparseable string, in the collector and in terminal5m
C31_EpochToMs ==
  fnOut.done =>
    /\ EpochExpected(fnIn.x, fnOut.collector)
    /\ EpochExpected(fnIn.x, fnOut.terminal)

\* the collector's epochToMs as stated
EpochToMsCollector == fnOut.done => EpochExpected(fnIn.x, fnOut.collector)

\* the terminal's epochToMs as stated, but for the empty and the blank string
EpochToMsTerminalButEmpty ==
  (fnOut.done /\ ~(IsString(fnIn.x) /\ fnIn.x.str = "empty")) =>
    EpochExpected(fnIn.x, fnOut.terminal)

\* ---------------------------------------------------------------------
\* SpecTracker: createWarningTracker of stats5mPatterns.js under a run of
\* add calls
\* ---------------------------------------------------------------------

SAMPLE_LIMIT == 25
MaxTrackerAdds == 27

WarningCodes == {"missing_file", "bad_json_line", "missing_date_dir"}

\* const counts = new Map(); const samples = []
createWarningTracker == [counts |-> <<>>, samples |-> <<>>]

\* counts.get(code) || 0
CountOf(counts, code) == IF code \in DOMAIN counts THEN counts[code] ELSE 0

\* counts.set(code, n)
MapSet(counts, code, n) ==
  [c \in DOMAIN counts \cup {code} |-> IF c = code THEN n ELSE counts[c]]

\* an add that keeps every sample
TrackerAddUncapped(tracker, code, message) ==
  [counts |-> MapSet(tracker.counts, code, CountOf(tracker.counts, code) + 1),
   samples |-> Append(tracker.samples, [code |-> code, message |-> message])]

\* add(code, message)
TrackerAdd(tracker, code, message) ==
  [counts |-> MapSet(tracker.counts, code, CountOf(tracker.counts, code) + 1),
   samples |-> IF Len(tracker.samples) < SAMPLE_LIMIT
               THEN Append(tracker.samples, [code |-> code, message |-> message])
               ELSE tracker.samples]

RECURSIVE SumOfCounts(_, _)
SumOfCounts(counts, codes) ==
  IF codes = {} THEN 0
  ELSE LET c == CHOOSE c \in codes : TRUE
       IN  counts[c] + SumOfCounts(counts, codes \ {c})

\* toObject().total
TrackerTotal(tracker) == SumOfCounts(tracker.counts, DOMAIN tracker.counts)

\* the warnings of a run: code first up to the k-th, code then from there
\* on, each with its own message
WarningRun(first, then, k) ==
  [i \in 1..MaxTrackerAdds |->
     [code |-> IF i <= k THEN first ELSE then, message |-> i]]

\* the warnings of a run whose codes take turns
WarningRunInTurns(first, then) ==
  [i \in 1..MaxTrackerAdds |->
     [code |-> IF i % 2 = 1 THEN first ELSE then, message |-> i]]

WarningRuns ==
  {WarningRun(first, then, k) :
     first \in WarningCodes, then \in WarningCodes, k \in 0..MaxTrackerAdds}
    \cup {WarningRunInTurns(first, then) :
            first \in WarningCodes, then \in WarningCodes}

\* fnIn is the run of warnings to come, fnOut the number of add calls made
InitTracker ==
  /\ fnIn \in WarningRuns
  /\ fnOut = 0
  /\ warnings = createWarningTracker
  /\ jsonl = <<>>
  /\ rowsSeen = 0
  /\ coll = <<>>
  /\ updownFiles = <<>>
  /\ cacheLog = <<>>
  /\ WriteIdle
  /\ AnalyzeIdle
  /\ SideIdle
  /\ WindowIdle
  /\ StoreIdle

\* warnings.add(code, message)
TrackerAddCall ==
  /\ fnOut < MaxTrackerAdds
  /\ fnOut' = fnOut + 1
  /\ warnings' = TrackerAdd(warnings, fnIn[fnOut + 1].code, fnIn[fnOut + 1].message)
  /\ UNCHANGED <<fnIn, jsonl, rowsSeen, coll, updownFiles, cacheLog, writeVars,
                 analyzeVars, sideVars, winVars, storeVars>>

NextTracker == TrackerAddCall

SpecTracker == InitTracker /\ [][NextTracker]_vars

\* the add calls made so far
AddsMade == SubSeq(fnIn, 1, fnOut)

AddsWithCode(code) == Cardinality({i \in 1..fnOut : fnIn[i].code = code})

\* C32: after n add calls the per-code counts sum to n, the count of each
\* code is the number of adds with that code, and the sample list holds
\* exactly the first min(n, 25) warnings in order
C32_TrackerCountsAndSamples ==
  /\ TrackerTotal(warnings) = fnOut
  /\ \A code \in WarningCodes : CountOf(warnings.counts, code) = AddsWithCode(code)
  /\ warnings.samples = SubSeq(fnIn, 1, IF fnOut < SAMPLE_LIMIT THEN fnOut ELSE SAMPLE_LIMIT)

\* more adds than samples kept, with two codes among them
C32_Witness ==
  /\ fnOut > SAMPLE_LIMIT
  /\ Len(warnings.samples) = SAMPLE_LIMIT
  /\ Cardinality(DOMAIN warnings.counts) = 2
  /\ fnIn[fnOut].code # fnIn[1].code

\* ---------------------------------------------------------------------
\* SpecShutdown: the collector of SpecCollector with its shutdown handler
\* in full: timers, lifecycle row, streams and exit
\* ---------------------------------------------------------------------

CollectorTimers == {"timerMarket", "timerHeartbeat", "timerFlush", "timerScreen"}

\* the order of the clearInterval calls
TimerOrder == <<"timerMarket", "timerHeartbeat", "timerFlush", "timerScreen">>

CollectorStreams == {"clobStream", "polymarketPriceStream"}

\* the reasons and exit codes of the handlers that call shutdown
ShutdownTriggers ==
  { [reason |-> "SIGINT", exitCode |-> 0],
    [reason |-> "SIGTERM", exitCode |-> 0],
    [reason |-> "SIGHUP", exitCode |-> 0],
    [reason |-> "uncaughtException", exitCode |-> 1] }

ClearIntervalOp(timer) == [op |-> "clearInterval", timer |-> timer]
WriteRowOp(written) == [op |-> "appendJsonl", file |-> "updown_state.jsonl", key |-> KeyOfRow(written.row), windowId |-> written.windowId]
WriteLifecycleOp(name, trigger, slug) == [op |-> "appendJsonl", file |-> "market_lifecycle.jsonl", event_type |-> name, reason |-> trigger.reason, exit_code |-> trigger.exitCode, market_slug |-> slug]
CloseStreamOp(stream) == [op |-> "close", stream |-> stream]
ExitOp(code) == [op |-> "exit", code |-> code]

\* a shutdown that closes the streams before it writes anything
ShutdownOpsCloseFirst(buckets, activeMarket, nowMs, trigger) ==
  [n \in 1..Len(TimerOrder) |-> ClearIntervalOp(TimerOrder[n])]
    \o <<CloseStreamOp("clobStream"), CloseStreamOp("polymarketPriceStream")>>
    \o [n \in 1..Len(flushAggregation(buckets, nowMs, TRUE).written) |->
          WriteRowOp(flushAggregation(buckets, nowMs, TRUE).written[n])]
    \o <<WriteLifecycleOp("collector_stopped", trigger, activeMarket.slug)>>
    \o <<ExitOp(trigger.exitCode)>>

\* what shutdown does after its guard, in the order of the code
ShutdownOps(buckets, activeMarket, nowMs, trigger) ==
  [n \in 1..Len(TimerOrder) |-> ClearIntervalOp(TimerOrder[n])]
    \o [n \in 1..Len(flushAggregation(buckets, nowMs, TRUE).written) |->
          WriteRowOp(flushAggregation(buckets, nowMs, TRUE).written[n])]
    \o <<WriteLifecycleOp("collector_stopped", trigger, activeMarket.slug)>>
    \o <<CloseStreamOp("clobStream"), CloseStreamOp("polymarketPriceStream")>>
    \o <<ExitOp(trigger.exitCode)>>

\* fnIn holds the timers running, the streams open and whether the process
\* has exited; fnOut is the log of what shutdown has done
InitShutdown ==
  /\ coll = [now |-> 0,
             ticks |-> 0,
             activeMarket |-> NullMarket,
             aggregateBuckets |-> <<>>,
             marketRefreshInFlight |-> FALSE,
             shutdownStarted |-> FALSE,
             nEvents |-> 0,
             merged |-> <<>>]
  /\ updownFiles = <<>>
  /\ fnIn = [timers |-> CollectorTimers, streams |-> CollectorStreams, exited |-> FALSE]
  /\ fnOut = <<>>
  /\ cacheLog = <<>>
  /\ WriteIdle
  /\ JsonlIdle
  /\ AnalyzeIdle
  /\ SideIdle
  /\ WindowIdle
  /\ StoreIdle

ShutdownRest ==
  UNCHANGED <<cacheLog, writeVars, jsonlVars, analyzeVars, sideVars, winVars, storeVars>>

\* shutdown(reason, exitCode), called by a signal or an error handler of
\* the running process
Shutdown ==
  /\ ~fnIn.exited
  /\ \E trigger \in ShutdownTriggers :
       IF coll.shutdownStarted
       THEN UNCHANGED <<coll, updownFiles, fnIn, fnOut>>
       ELSE LET flushed == flushAggregation(coll.aggregateBuckets, coll.now, TRUE)
            IN  /\ coll' = [coll EXCEPT !.shutdownStarted = TRUE,
                                        !.aggregateBuckets = flushed.buckets]
                /\ updownFiles' = updownFiles \o flushed.written
                /\ fnIn' = [timers |-> {}, streams |-> {}, exited |-> TRUE]
                /\ fnOut' = fnOut \o ShutdownOps(coll.aggregateBuckets, coll.activeMarket,
                                                 coll.now, trigger)
  /\ ShutdownRest

\* the callbacks of the timers and of the streams run while the timers run
\* and the streams are open, that is until shutdown
NextShutdown ==
  \/ CollectorTick
  \/ StreamUpdate
  \/ TimerFlush
  \/ RefreshStart
  \/ RefreshResolved
  \/ Shutdown

SpecShutdown == InitShutdown /\ [][NextShutdown]_vars

\* the positions of the log that hold an operation of a kind
OpsAt(op) == {n \in 1..Len(fnOut) : fnOut[n].op = op}

RowWrites == {n \in OpsAt("appendJsonl") : fnOut[n].file = "updown_state.jsonl"}
StoppedWrites == {n \in OpsAt("appendJsonl") : fnOut[n].file = "market_lifecycle.jsonl" /\ fnOut[n].event_type = "collector_stopped"}

\* the log is in order: the four timers, then the rows, then
\* collector_stopped once, then both streams, then the exit
ShutdownInOrder ==
  /\ {fnOut[n].timer : n \in OpsAt("clearInterval")} = CollectorTimers
  /\ Cardinality(OpsAt("clearInterval")) = 4
  /\ Cardinality(StoppedWrites) = 1
  /\ {fnOut[n].stream : n \in OpsAt("close")} = CollectorStreams
  /\ Cardinality(OpsAt("close")) = 2
  /\ Cardinality(OpsAt("exit")) = 1
  /\ \A a \in OpsAt("clearInterval"), b \in RowWrites \cup StoppedWrites : a < b
  /\ \A a \in RowWrites, b \in StoppedWrites : a < b
  /\ \A a \in StoppedWrites, b \in OpsAt("close") : a < b
  /\ \A a \in OpsAt("close"), b \in OpsAt("exit") : a < b

BUCKET_MS == 300000
MaxPtbTicks == 3
MaxPtbSteps == 7

\* floorToBucket and nextBucketBoundary of terminal5m.js
floorToBucketTerminal(ms) == (ms \div BUCKET_MS) * BUCKET_MS

\* a boundary function that keeps a time that lies on the grid
nextBucketBoundaryCeil(ms) == ((ms + BUCKET_MS - 1) \div BUCKET_MS) * BUCKET_MS

nextBucketBoundary(ms) == floorToBucketTerminal(ms) + BUCKET_MS

\* new PtbCalculator({ bucketMs: BUCKET_MS })
NewPtbCalculator ==
  [bucketMs |-> BUCKET_MS, prevTick |-> JsonNull, nextBoundaryMs |-> NULL,
   currentWindow |-> JsonNull]

resetWithTick(calc, tick) ==
  [calc EXCEPT !.prevTick = tick,
               !.nextBoundaryMs = nextBucketBoundary(tick.tsMs),
               !.currentWindow = JsonNull]

\* one pass of the while loop of onTick: the price and method at the
\* boundary, null when neither branch applies
BoundaryEvent(calc, tick) ==
  IF tick.tsMs = calc.nextBoundaryMs
  THEN [startMs |-> calc.nextBoundaryMs, price |-> tick.price, method |-> "exact"]
  ELSE IF calc.prevTick.tsMs < calc.nextBoundaryMs /\ tick.tsMs > calc.nextBoundaryMs
       THEN [startMs |-> calc.nextBoundaryMs,
             price |-> (calc.prevTick.price + tick.price) \div 2,
             method |-> "avg"]
       ELSE JsonNull

WindowOfEvent(calc, event) ==
  [startMs |-> event.startMs, endMs |-> event.startMs + calc.bucketMs,
   ptbPrice |-> event.price, ptbMethod |-> event.method]

\* while (this.nextBoundaryMs <= tick.tsMs) { ... }
RECURSIVE BoundaryLoop(_, _, _)
BoundaryLoop(calc, tick, lastBoundaryEvent) ==
  IF calc.nextBoundaryMs <= tick.tsMs
  THEN LET event == BoundaryEvent(calc, tick)
           stepped == [calc EXCEPT
                         !.currentWindow = IF event = JsonNull THEN @
                                           ELSE WindowOfEvent(calc, event),
                         !.nextBoundaryMs = @ + calc.bucketMs]
       IN  BoundaryLoop(stepped, tick,
                        IF event = JsonNull THEN lastBoundaryEvent ELSE event)
  ELSE [calc |-> calc, event |-> lastBoundaryEvent]

\* onTick(tick): the calculator afterwards and the value returned
onTick(calc, tick) ==
  IF calc.prevTick = JsonNull
  THEN [calc |-> resetWithTick(calc, tick), event |-> JsonNull]
  ELSE IF tick.tsMs < calc.prevTick.tsMs
  THEN [calc |-> calc, event |-> JsonNull]
  ELSE IF tick.tsMs - calc.prevTick.tsMs > calc.bucketMs * 2
  THEN [calc |-> resetWithTick(calc, tick), event |-> JsonNull]
  ELSE LET started == IF calc.nextBoundaryMs = NULL
                      THEN [calc EXCEPT !.nextBoundaryMs = nextBucketBoundary(calc.prevTick.tsMs)]
                      ELSE calc
           looped == BoundaryLoop(started, tick, JsonNull)
       IN  [calc |-> [looped.calc EXCEPT !.prevTick = tick], event |-> looped.event]

\* tick times lie on the boundaries and half-way between them; prices are
\* even, so that the mean of two of them is exact
PtbTickTimes == {k * (BUCKET_MS \div 2) : k \in 0..MaxPtbSteps}
PtbTickPrices == {100, 104}

\* coll holds the calculator, the ticks given to it and which of them it
\* took
InitPtb ==
  /\ coll = [ptb |-> NewPtbCalculator, fed |-> <<>>, taken |-> <<>>, returned |-> JsonNull]
  /\ updownFiles = <<>>
  /\ fnIn = <<>>
  /\ fnOut = <<>>
  /\ cacheLog = <<>>
  /\ WriteIdle
  /\ JsonlIdle
  /\ AnalyzeIdle
  /\ SideIdle
  /\ WindowIdle
  /\ StoreIdle

\* ptb.onTick({ tsMs: timestampMs, price })
PtbOnTick ==
  /\ Len(coll.fed) < MaxPtbTicks
  /\ \E tsMs \in PtbTickTimes, price \in PtbTickPrices :
       LET tick == [tsMs |-> tsMs, price |-> price]
           out == onTick(coll.ptb, tick)
       IN  coll' = [ptb |-> out.calc,
                    fed |-> Append(coll.fed, tick),
                    taken |-> IF out.calc.prevTick = tick /\ ~(coll.ptb.prevTick # JsonNull /\ tsMs < coll.ptb.prevTick.tsMs)
                              THEN Append(coll.taken, tick) ELSE coll.taken,
                    returned |-> out.event]
  /\ UNCHANGED <<updownFiles, fnIn, fnOut, cacheLog, writeVars, jsonlVars,
                 analyzeVars, sideVars, winVars, storeVars>>

NextPtb == PtbOnTick

SpecPtb == InitPtb /\ [][NextPtb]_vars

\* the ticks taken that fell on a time
TakenAt(tsMs) == {n \in 1..Len(coll.taken) : coll.taken[n].tsMs = tsMs}

\* the window's price is the mean of two ticks taken one after the other,
\* the first before startMs and the second after it
MeanAround(w) ==
  \E n \in 1..(Len(coll.taken) - 1) :
    /\ coll.taken[n].tsMs < w.startMs
    /\ coll.taken[n + 1].tsMs > w.startMs
    /\ w.ptbPrice * 2 = coll.taken[n].price + coll.taken[n + 1].price

\* the state of the calculator once it has a tick
PtbState(calc) ==
  /\ calc.nextBoundaryMs % calc.bucketMs = 0
  /\ calc.nextBoundaryMs > calc.prevTick.tsMs
  /\ calc.currentWindow # JsonNull =>
       /\ calc.currentWindow.endMs = calc.nextBoundaryMs
       /\ calc.currentWindow.startMs <= calc.prevTick.tsMs
       /\ calc.prevTick.tsMs < calc.currentWindow.endMs
       /\ calc.currentWindow.ptbMethod \in {"exact", "avg"}
       /\ (calc.currentWindow.ptbMethod = "exact") <=> (TakenAt(calc.currentWindow.startMs) # {})
       /\ calc.currentWindow.ptbMethod = "avg" => MeanAround(calc.currentWindow)

\* C34: after onTick calls with at least one tick, nextBoundaryMs is a
\* multiple of bucketMs above prevTick.tsMs, prevTick.tsMs never decreases,
\* a tick older than prevTick changes no field, and a current window ends at
\* nextBoundaryMs, holds prevTick.tsMs, and is exact exactly when a tick fell
\* on its startMs and otherwise the mean of the two ticks around it
C34_PtbCalculator ==
  [][/\ PtbState(coll.ptb)'
     /\ coll.ptb.prevTick # JsonNull =>
          /\ coll'.ptb.prevTick.tsMs >= coll.ptb.prevTick.tsMs
          /\ coll'.fed[Len(coll'.fed)].tsMs < coll.ptb.prevTick.tsMs => coll'.ptb = coll.ptb]_vars

\* a tick crossed two boundaries at once, and an older tick came after it
C34_Witness ==
  /\ Len(coll.fed) = 3
  /\ coll.ptb.currentWindow # JsonNull
  /\ coll.ptb.currentWindow.ptbMethod = "avg"
  /\ coll.fed[2].tsMs - coll.fed[1].tsMs = 2 * BUCKET_MS
  /\ coll.fed[3].tsMs < coll.fed[2].tsMs
  /\ coll.ptb.prevTick = coll.fed[2]

\* ---------------------------------------------------------------------
\* SpecClients: the WebSocket clients: startPolymarketClobMarketStream and
\* startPolymarketBtcRtdsStream of updownDataCollector.js, and the client
\* of terminal5m.js, under the events of their sockets
\* ---------------------------------------------------------------------

RECONNECT_MIN_MS == 500
RECONNECT_MAX_MS == 10000
MaxSockets == 3
MaxFailedBefore == 9
MaxClientMessages == 1
MaxClobSockets == 2
MaxClobCalls == 3

ClientKinds == {"clob", "rtds", "terminal"}
CollectorKinds == {"clob", "rtds"}

\* Math.min(10_000, Math.floor(reconnectMs * 1.5))
NextReconnectMs(reconnectMs) == Min2(RECONNECT_MAX_MS, (reconnectMs * 3) \div 2)

\* reconnectMs after k scheduled reconnects in a row with no open between
RECURSIVE ReconnectMsAfter(_)
ReconnectMsAfter(k) ==
  IF k = 0 THEN RECONNECT_MIN_MS ELSE NextReconnectMs(ReconnectMsAfter(k - 1))

\* new WebSocket(wsUrl, ...): the RTDS stream connects through the proxy
\* agent or directly, the other clients always through wsAgentForUrl
NewSocket(kind, useProxy) ==
  [readyState |-> "CONNECTING", errored |-> FALSE, opened |-> FALSE,
   mode |-> IF kind = "rtds" /\ ~useProxy THEN "direct" ELSE "proxy"]

\* ws?.terminate(): a socket that is connecting or open goes to CLOSING;
\* its error and close events follow later
Terminate(sock, ws) ==
  IF ws = 0 THEN sock
  ELSE [sock EXCEPT ![ws].readyState =
          IF @ \in {"CONNECTING", "OPEN"} THEN "CLOSING" ELSE @]

\* connect of the three clients
connect(c) ==
  IF c.closed THEN c
  ELSE [c EXCEPT !.sock = Append(@, NewSocket(c.kind, c.useProxy)),
                 !.ws = Len(c.sock) + 1]

\* a scheduleReconnect that doubles the delay
scheduleReconnectDoubling(c) ==
  IF c.closed \/ c.reconnectTimer THEN c
  ELSE [c EXCEPT !.sock = Terminate(@, c.ws),
                 !.ws = 0,
                 !.wait = c.reconnectMs,
                 !.reconnectMs = Min2(RECONNECT_MAX_MS, c.reconnectMs * 2),
                 !.useProxy = IF c.kind = "rtds" THEN ~@ ELSE @,
                 !.reconnectTimer = TRUE,
                 !.timers = @ + 1]

\* scheduleReconnect of the collector's streams; the RTDS stream also
\* switches between proxy and direct
scheduleReconnect(c) ==
  IF c.closed \/ c.reconnectTimer THEN c
  ELSE [c EXCEPT !.sock = Terminate(@, c.ws),
                 !.ws = 0,
                 !.wait = c.reconnectMs,
                 !.reconnectMs = NextReconnectMs(c.reconnectMs),
                 !.useProxy = IF c.kind = "rtds" THEN ~@ ELSE @,
                 !.reconnectTimer = TRUE,
                 !.timers = @ + 1]

\* scheduleReconnect of terminal5m.js: the timer reconnectTimer names is
\* cleared, if it is still pending, and a new one is set
scheduleReconnectTerminal(c) ==
  IF c.closed THEN c
  ELSE [c EXCEPT !.sock = Terminate(@, c.ws),
                 !.ws = 0,
                 !.wait = c.reconnectMs,
                 !.reconnectMs = NextReconnectMs(c.reconnectMs),
                 !.reconnectTimer = TRUE,
                 !.timers = (IF c.reconnectTimer THEN 0 ELSE @) + 1]

\* sendSubscription of the CLOB stream, and the subscribe message of the
\* other two clients
sendSubscription(c) ==
  IF c.kind = "clob"
  THEN IF c.ws = 0 \/ c.sock[c.ws].readyState # "OPEN" \/ c.subscribedAssets = {}
       THEN c
       ELSE [c EXCEPT !.sent = Append(@, [socket |-> c.ws, assets_ids |-> c.subscribedAssets])]
  ELSE [c EXCEPT !.sent = Append(@, [socket |-> c.ws, assets_ids |-> {"crypto_prices_chainlink"}])]

\* socket.on("open"): the collector's streams ignore a socket that is not
\* the current one; the terminal sends on whatever ws is
onOpen(c, socket) ==
  IF c.kind \in CollectorKinds
  THEN IF c.closed \/ c.ws # socket THEN c
       ELSE sendSubscription([c EXCEPT !.reconnectMs = RECONNECT_MIN_MS])
  ELSE IF c.ws # 0 /\ c.sock[c.ws].readyState = "OPEN"
       THEN sendSubscription([c EXCEPT !.reconnectMs = RECONNECT_MIN_MS])
       ELSE scheduleReconnectTerminal([c EXCEPT !.reconnectMs = RECONNECT_MIN_MS])

\* socket.on("close") and socket.on("error")
onCloseOrError(c, socket) ==
  IF c.kind \in CollectorKinds
  THEN IF c.ws # socket THEN c ELSE scheduleReconnect(c)
  ELSE scheduleReconnectTerminal(c)

\* a close() that leaves the reconnect timer pending
closeStreamKeepTimer(c) ==
  [c EXCEPT !.closed = TRUE, !.sock = Terminate(@, c.ws), !.ws = 0]

\* close() of a collector stream
closeStream(c) ==
  [c EXCEPT !.closed = TRUE,
            !.timers = IF c.reconnectTimer THEN @ - 1 ELSE @,
            !.reconnectTimer = FALSE,
            !.sock = Terminate(@, c.ws),
            !.ws = 0]

\* the asset ids of events, of one market and of another, and the sets
\* subscribed
StreamAssets == {"up-1", "up-2"}
AssetSets == {{}, {"up-1", "down-1"}, {"up-2"}}

\* the events of a step, read off the sockets: which one opened, reported
\* an error, closed
Opens(socket) == coll.sock[socket].readyState = "CONNECTING" /\ coll'.sock[socket].readyState = "OPEN"
Errors(socket) == ~coll.sock[socket].errored /\ coll'.sock[socket].errored
Closes(socket) == coll.sock[socket].readyState # "CLOSED" /\ coll'.sock[socket].readyState = "CLOSED"

\* buildStateFromPayload: the payload's fields over the stored ones
buildStateFromPayload(prev, payload) ==
  [assetId |-> payload.asset_id,
   state |-> [bestBid |-> IF payload.best_bid # NULL THEN payload.best_bid
                          ELSE IF prev = JsonNull THEN NULL ELSE prev.bestBid,
              updatedAtMs |-> payload.timestamp]]

\* stateByAssetId.get(assetId) || null
StoredState(c, assetId) ==
  IF assetId \in DOMAIN c.stateByAssetId THEN c.stateByAssetId[assetId] ELSE JsonNull

stateChanged(prev, next) ==
  prev = JsonNull \/ prev.bestBid # next.bestBid \/ prev.updatedAtMs # next.updatedAtMs

\* a processMessageObject that lets every asset through
processMessageObjectUnfiltered(c, payload) ==
  LET parsed == buildStateFromPayload(StoredState(c, payload.asset_id), payload)
  IN  IF ~stateChanged(StoredState(c, parsed.assetId), parsed.state) THEN c
      ELSE [c EXCEPT !.stateByAssetId = MapSet(@, parsed.assetId, parsed.state),
                     !.updates = Append(@, [assetId |-> parsed.assetId, state |-> parsed.state])]

\* processMessageObject of the CLOB stream for a message of one payload
processMessageObject(c, payload) ==
  LET parsed == buildStateFromPayload(StoredState(c, payload.asset_id), payload)
  IN  IF c.subscribedAssets # {} /\ parsed.assetId \notin c.subscribedAssets THEN c
      ELSE IF ~stateChanged(StoredState(c, parsed.assetId), parsed.state) THEN c
      ELSE [c EXCEPT !.stateByAssetId = MapSet(@, parsed.assetId, parsed.state),
                     !.updates = Append(@, [assetId |-> parsed.assetId, state |-> parsed.state])]

\* socket.on("message"): the CLOB stream filters and compares, the other
\* two clients pass every price on
onMessage(c, payload) ==
  IF c.kind = "clob" THEN processMessageObject(c, payload)
  ELSE [c EXCEPT !.updates = Append(@, [price |-> payload.best_bid])]

\* subscribeAssets(assetIds, { resetState })
subscribeAssets(c, next, resetState) ==
  LET changed == c.subscribedAssets # next
      stored == [c EXCEPT !.subscribedAssets = next,
                          !.stateByAssetId = IF resetState THEN <<>> ELSE @,
                          !.nSubscribes = @ + 1]
  IN  IF changed THEN sendSubscription(stored) ELSE stored

\* a client whose first k attempts have failed one after the other, with
\* the socket of its next attempt; it may create maxSockets sockets and
\* take maxCalls messages and subscribeAssets calls
ClientAfter(kind, k, maxSockets, maxCalls) ==
  connect([kind |-> kind,
           sock |-> <<>>,
           ws |-> 0,
           closed |-> FALSE,
           reconnectMs |-> ReconnectMsAfter(k),
           reconnectTimer |-> FALSE,
           timers |-> 0,
           useProxy |-> (k % 2 = 0),
           wait |-> IF k = 0 THEN 0 ELSE ReconnectMsAfter(k - 1),
           subscribedAssets |-> {},
           stateByAssetId |-> <<>>,
           sent |-> <<>>,
           updates |-> <<>>,
           nMessages |-> 0,
           nSubscribes |-> 0,
           timerAtClose |-> FALSE,
           maxSockets |-> maxSockets,
           maxMessages |-> maxCalls,
           afterClose |-> FALSE])

ClientParked ==
  /\ updownFiles = <<>>
  /\ fnIn = <<>>
  /\ fnOut = <<>>
  /\ cacheLog = <<>>
  /\ WriteIdle
  /\ JsonlIdle
  /\ AnalyzeIdle
  /\ SideIdle
  /\ WindowIdle
  /\ StoreIdle

InitClients ==
  /\ coll \in {ClientAfter(kind, k, MaxSockets, MaxClientMessages) :
                 kind \in ClientKinds, k \in 0..MaxFailedBefore}
  /\ ClientParked

ClientRest ==
  UNCHANGED <<updownFiles, fnIn, fnOut, cacheLog, writeVars, jsonlVars,
              analyzeVars, sideVars, winVars, storeVars>>

\* the reconnect timer fires: the collector's callback clears
\* reconnectTimer and connects, the terminal's callback is connect
TimerFire ==
  /\ coll.timers > 0
  /\ Len(coll.sock) < coll.maxSockets
  /\ coll' = connect([coll EXCEPT
                 !.timers = @ - 1,
                 !.reconnectTimer = IF coll.kind \in CollectorKinds THEN FALSE ELSE @])
  /\ ClientRest

\* a socket that is connecting opens
SocketOpen ==
  /\ \E socket \in 1..Len(coll.sock) :
       /\ coll.sock[socket].readyState = "CONNECTING"
       /\ coll' = onOpen([coll EXCEPT !.sock[socket].readyState = "OPEN",
                                      !.sock[socket].opened = TRUE,
                                      !.afterClose = coll.closed], socket)
  /\ ClientRest

\* a socket delivers a message: while it is open, or what it had received
\* when it was terminated
SocketMessage ==
  /\ coll.nMessages + coll.nSubscribes < coll.maxMessages
  /\ \E socket \in 1..Len(coll.sock), assetId \in StreamAssets, bestBid \in {NULL, 1} :
       /\ coll.sock[socket].opened
       /\ coll.sock[socket].readyState \in {"OPEN", "CLOSING"}
       /\ coll' = onMessage([coll EXCEPT !.nMessages = @ + 1,
                                         !.afterClose = coll.closed],
                            [asset_id |-> assetId, best_bid |-> bestBid, timestamp |-> 10])
  /\ ClientRest

\* a socket reports an error, once, before it closes
SocketError ==
  /\ \E socket \in 1..Len(coll.sock) :
       /\ coll.sock[socket].readyState # "CLOSED"
       /\ ~coll.sock[socket].errored
       /\ coll' = onCloseOrError([coll EXCEPT !.sock[socket].readyState = "CLOSING",
                                              !.sock[socket].errored = TRUE,
                                              !.afterClose = coll.closed], socket)
  /\ ClientRest

\* a socket closes: by the peer, after an error or after terminate(); no
\* event of it follows
SocketClose ==
  /\ \E socket \in 1..Len(coll.sock) :
       /\ coll.sock[socket].readyState # "CLOSED"
       /\ coll' = onCloseOrError([coll EXCEPT !.sock[socket].readyState = "CLOSED",
                                              !.sock[socket].errored = TRUE,
                                              !.sock[socket].opened = FALSE,
                                              !.afterClose = coll.closed], socket)
  /\ ClientRest

\* clobStream.close() and polymarketPriceStream.close()
StreamClose ==
  /\ coll.kind \in CollectorKinds
  /\ ~coll.closed
  /\ coll' = closeStream([coll EXCEPT !.timerAtClose = coll.reconnectTimer])
  /\ ClientRest

NextClients ==
  \/ TimerFire
  \/ SocketOpen
  \/ SocketMessage
  \/ SocketError
  \/ SocketClose
  \/ StreamClose

SpecClients == InitClients /\ [][NextClients]_vars

\* ---------------------------------------------------------------------
\* SpecClob: the CLOB stream with its subscriptions and messages
\* ---------------------------------------------------------------------

InitClob ==
  /\ coll = ClientAfter("clob", 0, MaxClobSockets, MaxClobCalls)
  /\ ClientParked

\* clobStream.subscribeAssets(assetIds, { resetState })
SubscribeAssets ==
  /\ coll.kind = "clob"
  /\ coll.nMessages + coll.nSubscribes < coll.maxMessages
  /\ \E next \in AssetSets, resetState \in BOOLEAN :
       coll' = subscribeAssets(coll, next, resetState)
  /\ ClientRest

NextClob ==
  \/ NextClients
  \/ SubscribeAssets

SpecClob == InitClob /\ [][NextClob]_vars

\* the step calls onUpdate
UpdateInvoked == Len(coll'.updates) > Len(coll.updates)
NewUpdate == coll'.updates[Len(coll'.updates)]

\* the update is for a state that differs from the one stored for its asset
UpdateOfChangedState ==
  /\ Len(coll'.updates) = Len(coll.updates) + 1
  /\ StoredState(coll, NewUpdate.assetId) # NewUpdate.state
  /\ StoredState(coll', NewUpdate.assetId) = NewUpdate.state

\* the current socket opens with assets subscribed: one message with
\* exactly these assets goes out on it
SubscriptionSentOnOpen ==
  (coll.ws # 0 /\ Opens(coll.ws) /\ coll.subscribedAssets # {}) =>
    coll'.sent = Append(coll.sent, [socket |-> coll.ws, assets_ids |-> coll.subscribedAssets])

\* C35: after subscribeAssets(S) has returned, onUpdate is invoked only for
\* events whose asset id is in S and only when the asset's state differs
\* from the last stored one; whenever the socket opens while S is non-empty
\* a subscription message listing exactly S is sent
C35_OnlySubscribedAssets ==
  [][coll.nSubscribes >= 1 =>
       /\ UpdateInvoked => (NewUpdate.assetId \in coll.subscribedAssets /\ UpdateOfChangedState)
       /\ SubscriptionSentOnOpen]_vars

\* C35 as the code has it: an empty S filters nothing
C35_OnlySubscribedAssetsUnlessEmpty ==
  [][coll.nSubscribes >= 1 =>
       /\ UpdateInvoked =>
            /\ coll.subscribedAssets # {} => NewUpdate.assetId \in coll.subscribedAssets
            /\ UpdateOfChangedState
       /\ SubscriptionSentOnOpen]_vars

\* with one asset subscribed and the subscription sent on an open socket,
\* two events came and one of them was passed on
C35_Witness ==
  /\ coll.kind = "clob"
  /\ coll.subscribedAssets = {"up-2"}
  /\ Len(coll.sent) >= 1
  /\ coll.sent[1].assets_ids = {"up-2"}
  /\ coll.nMessages = 2
  /\ Len(coll.updates) = 1

\* C36: after close() on a collector stream, whatever the pending timer and
\* the sockets do, no socket is created and no reconnect is scheduled
C36_NoReconnectAfterClose ==
  [][(coll.kind \in CollectorKinds /\ coll.closed) =>
       /\ coll'.closed
       /\ Len(coll'.sock) = Len(coll.sock)
       /\ coll'.ws = 0
       /\ coll'.timers = 0
       /\ ~coll'.reconnectTimer
       /\ coll'.reconnectMs = coll.reconnectMs]_vars

\* close() came while a reconnect timer was pending, and an event of a
\* socket came after it
C36_Witness ==
  /\ coll.kind \in CollectorKinds
  /\ coll.closed
  /\ coll.timerAtClose
  /\ coll.afterClose

\* close() came while a socket was open, and its close event came after it
C36_WitnessOpenSocket ==
  /\ coll.kind \in CollectorKinds
  /\ coll.closed
  /\ ~coll.timerAtClose
  /\ coll.afterClose
  /\ coll.sent # <<>>

\* the step is a close or error event of a socket that is not the current
\* one
StaleCloseOrError ==
  \E socket \in 1..Len(coll.sock) :
    /\ socket # coll.ws
    /\ Errors(socket) \/ Closes(socket)

\* the current socket is not terminated, no reconnect is scheduled or
\* scheduled anew, the delay stays
ConnectionUntouched ==
  /\ coll'.ws = coll.ws
  /\ Len(coll'.sock) = Len(coll.sock)
  /\ coll.ws # 0 => coll'.sock[coll.ws] = coll.sock[coll.ws]
  /\ coll'.timers = coll.timers
  /\ coll'.reconnectTimer = coll.reconnectTimer
  /\ coll'.wait = coll.wait
  /\ coll'.reconnectMs = coll.reconnectMs

\* C37: in every client, a close or error event of a socket that is no
\* longer current never terminates the current socket, never schedules or
\* reschedules a reconnect and never changes the delay
C37_StaleEventsIgnored == [][StaleCloseOrError => ConnectionUntouched]_vars

\* C37 for the two streams of the collector
StaleEventsIgnoredCollector ==
  [][(coll.kind \in CollectorKinds /\ StaleCloseOrError) => ConnectionUntouched]_vars

\* a reconnect is scheduled in the step
ReconnectScheduled == coll'.timers > coll.timers

\* C38: in each collector stream at most one reconnect timer is pending and
\* at most one socket is current; the delay stays within [500, 10000], is
\* multiplied by 1.5 (floor, at most 10000) at each scheduled reconnect and
\* is 500 again when a socket opens; the attempts of the RTDS stream
\* alternate between proxy and direct
C38_BackoffAndSingleSocket ==
  [][coll.kind \in CollectorKinds =>
       /\ coll'.timers <= 1
       /\ coll'.reconnectTimer <=> (coll'.timers = 1)
       /\ \A socket \in 1..Len(coll'.sock) :
            coll'.sock[socket].readyState \in {"CONNECTING", "OPEN"} => socket = coll'.ws
       /\ (coll'.timers = 1) => coll'.ws = 0
       /\ coll'.reconnectMs >= RECONNECT_MIN_MS
       /\ coll'.reconnectMs <= RECONNECT_MAX_MS
       /\ ReconnectScheduled =>
            /\ coll'.wait = coll.reconnectMs
            /\ coll'.reconnectMs * 2 <= coll.reconnectMs * 3
            /\ coll'.reconnectMs = RECONNECT_MAX_MS \/ coll'.reconnectMs * 2 + 1 >= coll.reconnectMs * 3
            /\ (coll.reconnectMs * 3 >= RECONNECT_MAX_MS * 2) => coll'.reconnectMs = RECONNECT_MAX_MS
       /\ (coll.ws # 0 /\ Opens(coll.ws)) => coll'.reconnectMs = RECONNECT_MIN_MS
       /\ coll'.reconnectMs # coll.reconnectMs =>
            ReconnectScheduled \/ (coll.ws # 0 /\ Opens(coll.ws))
       /\ coll.kind = "rtds" =>
            \A n \in 1..(Len(coll'.sock) - 1) : coll'.sock[n].mode # coll'.sock[n + 1].mode]_vars

\* the third attempt in a row of the RTDS stream has failed and the next
\* one is scheduled with the longest delay
C38_Witness ==
  /\ coll.kind = "rtds"
  /\ Len(coll.sock) = 3
  /\ coll.sock[1].mode # coll.sock[2].mode
  /\ coll.wait = RECONNECT_MAX_MS
  /\ coll.reconnectMs = RECONNECT_MAX_MS
  /\ coll.timers = 1

\* a socket of the CLOB stream has opened after failed attempts and then
\* failed: the delay went back to 500 and the next one is 750
BackoffRestartsAfterOpen ==
  /\ coll.kind = "clob"
  /\ coll.sent = <<>>
  /\ coll.sock[1].opened
  /\ coll.wait = RECONNECT_MIN_MS
  /\ coll.reconnectMs = NextReconnectMs(RECONNECT_MIN_MS)
  /\ coll.timers = 1

\* ---------------------------------------------------------------------
\* The evaluator with its thresholds in the code (patterns5mCore.js
\* 500-565) beside evaluateSidePatterns, on the series of SpecSide
\* ---------------------------------------------------------------------

RECURSIVE evaluateLateVolatilityLowInclusive(_, _, _)
\* a loop that takes a price of exactly 0.4 for a drop
evaluateLateVolatilityLowInclusive(points, i, highSeen) ==
  IF i > Len(points) THEN FALSE
  ELSE LET seen == highSeen \/ points[i].price >= 800
       IN  IF seen /\ points[i].price <= 400 THEN TRUE
           ELSE evaluateLateVolatilityLowInclusive(points, i + 1, seen)

RECURSIVE evaluateLateVolatility(_, _, _)
\* evaluateLateVolatility(points) from index i on
evaluateLateVolatility(points, i, highSeen) ==
  IF i > Len(points) THEN FALSE
  ELSE LET seen == highSeen \/ points[i].price >= 800
       IN  IF seen /\ points[i].price < 400 THEN TRUE
           ELSE evaluateLateVolatility(points, i + 1, seen)

\* computeMaxDrawdownAbs of the same part of the file
computeMaxDrawdownAbsHardCoded(points) ==
  IF points = <<>> THEN 0
  ELSE DrawdownLoop(points, 1, points[1].price, 0)

\* evaluateSidePatterns(points, windowStartMs, windowEndMs) with the
\* thresholds 0.98/0.01, 0.8/0.4 and 0.99/0.1 in the code
evaluateSidePatternsHardCoded(points, windowStartMs, windowEndMs) ==
  LET InWindow(p) == p.ts >= windowStartMs /\ p.ts <= windowEndMs
      inWindow == sortPoints(SelectSeq(points, InWindow))
      last2mStart == windowEndMs - LAST_TWO_MIN_MS
      InLast2m(p) == p.ts >= last2mStart
      last2m == SelectSeq(inWindow, InLast2m)
      finalPrice == inWindow[Len(inWindow)].price
      fullMax == MaxPrice(inWindow)
      lateVolatility == IF Len(last2m) > 0 THEN evaluateLateVolatility(last2m, 1, FALSE) ELSE FALSE
      maxDrawdownAbs == IF Len(last2m) > 0 THEN computeMaxDrawdownAbsHardCoded(last2m) ELSE NULL
  IN  IF Len(inWindow) = 0
      THEN [hasData |-> FALSE, extremeReversal |-> FALSE, lateVolatility |-> FALSE,
            peacefulFinish |-> FALSE, metrics |-> NoMetrics]
      ELSE [hasData |-> TRUE,
            extremeReversal |-> fullMax >= 980 /\ finalPrice <= 10,
            lateVolatility |-> lateVolatility,
            peacefulFinish |-> /\ Len(last2m) > 0
                               /\ finalPrice >= 990
                               /\ maxDrawdownAbs # NULL
                               /\ maxDrawdownAbs <= 100
                               /\ ~lateVolatility,
            metrics |-> [maxPrice |-> fullMax,
                         finalPrice |-> finalPrice,
                         last2mHigh |-> IF Len(last2m) > 0 THEN MaxPrice(last2m) ELSE NULL,
                         last2mLow |-> IF Len(last2m) > 0 THEN MinPrice(last2m) ELSE NULL,
                         maxDrawdownAbs |-> maxDrawdownAbs]]

\* the two results say the same
SameSideResult(conf, hard) ==
  /\ conf.hasData = hard.hasData
  /\ conf.hits["extremeReversal"] = hard.extremeReversal
  /\ conf.hits["lateVolatility"] = hard.lateVolatility
  /\ conf.hits["peacefulFinish"] = hard.peacefulFinish
  /\ (conf.sharedMetrics = NoMetrics) <=> (hard.metrics = NoMetrics)
  /\ conf.hasData =>
       /\ conf.sharedMetrics.max_price = hard.metrics.maxPrice
       /\ conf.sharedMetrics.final_price = hard.metrics.finalPrice
       /\ conf.sharedMetrics.last2m_high = hard.metrics.last2mHigh
       /\ conf.sharedMetrics.last2m_low = hard.metrics.last2mLow
       /\ conf.sharedMetrics.max_drawdown_abs = hard.metrics.maxDrawdownAbs

EvaluatedWithDefaults ==
  /\ sideEval.done
  /\ sideEval.config = normalizePatternConfig(DEFAULT_PATTERN_CONFIG)

\* C39: for every side series and window bounds the evaluator with the
\* thresholds in the code and evaluateSidePatterns with
\* DEFAULT_PATTERN_CONFIG agree on hasData, the three hits and the max,
\* final, last-2-minute high and low and drawdown metrics
C39_HardCodedAgrees ==
  EvaluatedWithDefaults =>
    SameSideResult(sideEval.result,
                   evaluateSidePatternsHardCoded(sidePts, WindowStartMs, WindowEndMs))

\* a series with a point after the window whose last two minutes touch 0.8
\* and then exactly 0.4: no lateVolatility in either evaluator
C39_Witness ==
  /\ EvaluatedWithDefaults
  /\ Len(sidePts) = 3
  /\ sideEval.result.hasData
  /\ ~sideEval.result.hits["lateVolatility"]
  /\ \E n \in 1..3 : sidePts[n] = Pt(180000, 800)
  /\ \E n \in 1..3 : sidePts[n] = Pt(200000, 400)
  /\ \E n \in 1..3 : sidePts[n].ts > WindowEndMs

\* a series for which the evaluator with the thresholds in the code
\* reports peacefulFinish
HardCodedPeacefulFinish ==
  /\ EvaluatedWithDefaults
  /\ evaluateSidePatternsHardCoded(sidePts, WindowStartMs, WindowEndMs).peacefulFinish

====
